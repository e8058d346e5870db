-------------------------- MODULE JobPosting_proofs --------------------------
(***************************************************************************)
(* For any phones, accounts, posts, pictures and bounds: the types, and    *)
(* that posting implements the job board if no job document is refused.    *)
(* BoardInv is the inductive invariant: a job write stands once in the     *)
(* queues, and ahead of the entry that names it.  NumInv adds what makes   *)
(* the numbers grow along what a phone has seen.                           *)
(***************************************************************************)
EXTENDS JobPosting, SequenceTheorems, TLAPS

-----------------------------------------------------------------------------
(* Types.                                                                  *)

LEMMA WriteKinds ==
    ASSUME NEW w \in Write
    PROVE  /\ w.op \in {"job", "post"}
           /\ w.op = "job" => w.job \in JobDoc
           /\ w.op = "post" => w.post \in PostDoc
  BY DEF Write

LEMMA JobWritesType ==
    ASSUME NEW p \in Posts, NEW u \in Users, NEW job \in JobDoc
    PROVE  /\ JobWrites(p, u, job) \in Seq(Write)
           /\ Len(JobWrites(p, u, job)) = 2
           /\ JobWrites(p, u, job)[1] = [op |-> "job", job |-> job]
           /\ JobWrites(p, u, job)[2] =
                [op |-> "post", post |-> [id |-> p, poster |-> u]]
  <1>1. [op |-> "job", job |-> job] \in Write
    BY DEF Write
  <1>2. [op |-> "post", post |-> [id |-> p, poster |-> u]] \in Write
    BY DEF Write, PostDoc
  <1> QED
    BY <1>1, <1>2 DEF JobWrites

LEMMA SeenType ==
    ASSUME TypeOK, NEW ph \in Phones
    PROVE  SeenJobs(ph) \subseteq JobDoc
  <1>1. CASE account[ph] = NoUser
    BY <1>1 DEF SeenJobs, TypeOK
  <1>2. CASE account[ph] # NoUser
    <2>1. account[ph] \in Users
      BY <1>2 DEF TypeOK
    <2>2. queue[ph][account[ph]] \in Seq(Write)
      BY <2>1 DEF TypeOK
    <2>3. \A i \in DOMAIN queue[ph][account[ph]] :
            queue[ph][account[ph]][i] \in Write
      BY <2>2
    <2> QED
      BY <1>2, <2>3, WriteKinds DEF SeenJobs, TypeOK
  <1> QED
    BY <1>1, <1>2

LEMMA NextNumberType ==
    ASSUME NEW seen \in SUBSET JobDoc, NEW n \in NextNumbers(seen)
    PROVE  n \in Nat
  BY DEF NextNumbers, JobDoc

(* What the steps that only move a draft leave of its type.                *)
LEMMA DraftType ==
    ASSUME TypeOK, NEW p \in Posts, NEW d \in Draft,
           draft' = [draft EXCEPT ![p] = d]
    PROVE  draft' \in [Posts -> Draft]
  BY DEF TypeOK

(* A draft that is under way has a phone.                                  *)
LEMMA Started ==
    ASSUME TypeOK, NEW p \in Posts, draft[p].stage # "blank"
    PROVE  /\ draft[p] \in [stage: {"numbering", "uploading", "written", "lost"},
                            phone: Phones, num: Nat,
                            pictures: SUBSET Pictures, uploaded: SUBSET Pictures]
           /\ draft[p].phone \in Phones
  BY DEF TypeOK, Draft, Blank

LEMMA LoseDraftsType ==
    ASSUME TypeOK, NEW ph \in Phones, LoseDrafts(ph)
    PROVE  draft' \in [Posts -> Draft]
  <1>1. ASSUME NEW p \in InMemory(ph)
        PROVE  [draft[p] EXCEPT !.stage = "lost"] \in Draft
    <2>1. p \in Posts /\ draft[p].stage # "blank"
      BY DEF InMemory
    <2> QED
      BY <2>1, Started DEF Draft
  <1> QED
    BY <1>1 DEF TypeOK, LoseDrafts

LEMMA InitType == Init /\ ConstantsAssumption => TypeOK
  <1> SUFFICES ASSUME Init, ConstantsAssumption PROVE TypeOK
    OBVIOUS
  <1>1. Blank \in Draft
    BY DEF Blank, Draft
  <1>2. << >> \in Seq(Write)
    OBVIOUS
  <1> QED
    BY <1>1, <1>2 DEF Init, TypeOK, ConstantsAssumption

LEMMA PostType ==
    ASSUME TypeOK, NEW ph \in Phones, NEW p \in Posts, NEW pics \in SUBSET Pictures,
           Post(ph, p, pics)
    PROVE  TypeOK'
  <1>1. [Blank EXCEPT !.stage = "numbering", !.phone = ph, !.pictures = pics] \in Draft
    BY DEF Blank, Draft
  <1>2. draft' \in [Posts -> Draft]
    BY <1>1, DraftType DEF Post
  <1>3. {j.id : j \in SeenJobs(ph)} \subseteq Posts
    BY SeenType DEF JobDoc
  <1>4. older' \in [Posts -> SUBSET Posts]
    BY <1>3 DEF Post, TypeOK
  <1>5. author' \in [Posts -> Users \cup {NoUser}]
    BY DEF Post, TypeOK
  <1> QED
    BY <1>2, <1>4, <1>5 DEF Post, TypeOK

LEMMA DraftsType ==
    ASSUME TypeOK, NEW p \in Posts,
           \/ FindNumber(p) \/ NumberError(p)
           \/ \E pic \in Pictures : Upload(p, pic) \/ UploadError(p, pic)
    PROVE  TypeOK'
  <1>1. draft[p] \in [stage: {"numbering", "uploading", "written", "lost"},
                      phone: Phones, num: Nat,
                      pictures: SUBSET Pictures, uploaded: SUBSET Pictures]
    BY Started DEF FindNumber, NumberError, Upload, UploadError, Uploading
  <1>2. draft' \in [Posts -> Draft]
    <2>1. CASE FindNumber(p)
      <3>1. PICK n \in NextNumbers(SeenJobs(draft[p].phone)) :
              draft' = [draft EXCEPT ![p].stage = "uploading", ![p].num = n]
        BY <2>1 DEF FindNumber
      <3>2. n \in Nat
        BY <1>1, <3>1, SeenType, NextNumberType
      <3> QED
        BY <1>1, <3>1, <3>2 DEF TypeOK, Draft
    <2>2. CASE NumberError(p)
      BY <1>1, <2>2 DEF NumberError, TypeOK, Draft
    <2>3. ASSUME NEW pic \in Pictures, Upload(p, pic) PROVE draft' \in [Posts -> Draft]
      BY <1>1, <2>3 DEF Upload, TypeOK, Draft
    <2>4. ASSUME NEW pic \in Pictures, UploadError(p, pic) PROVE draft' \in [Posts -> Draft]
      BY <1>1, <2>4 DEF UploadError, TypeOK, Draft
    <2> QED
      BY <2>1, <2>2, <2>3, <2>4
  <1>3. UNCHANGED <<jobs, posts, queue, account, switches, crashes, author, older>>
    BY DEF FindNumber, NumberError, Upload, UploadError
  <1> QED
    BY <1>2, <1>3 DEF TypeOK

LEMMA WriteJobType ==
    ASSUME TypeOK, ConstantsAssumption, NEW p \in Posts, NEW pic \in Pictures, WriteJob(p, pic)
    PROVE  TypeOK'
  <1> DEFINE ph == draft[p].phone
             u == account[ph]
             job == [id |-> p, num |-> draft[p].num, poster |-> u,
                     pictures |-> draft[p].uploaded \cup {pic}]
  <1>1. draft[p] \in [stage: {"numbering", "uploading", "written", "lost"},
                      phone: Phones, num: Nat,
                      pictures: SUBSET Pictures, uploaded: SUBSET Pictures]
    BY Started DEF WriteJob, Uploading
  <1>2. ph \in Phones /\ u \in Users
    BY <1>1 DEF WriteJob, TypeOK
  <1>3. job \in JobDoc
    BY <1>1, <1>2 DEF JobDoc
  <1>4. draft' \in [Posts -> Draft]
    BY <1>1 DEF WriteJob, TypeOK, Draft
  <1>5. queue' = [queue EXCEPT ![ph][u] = @ \o JobWrites(p, u, job)]
    BY DEF WriteJob
  <1> HIDE DEF ph, u, job
  <1>6. queue[ph][u] \o JobWrites(p, u, job) \in Seq(Write)
    <2>1. queue[ph][u] \in Seq(Write)
      BY <1>2 DEF TypeOK
    <2>2. JobWrites(p, u, job) \in Seq(Write)
      BY <1>2, <1>3, JobWritesType
    <2> QED
      BY <2>1, <2>2
  <1>7. queue' \in [Phones -> [Users -> Seq(Write)]]
    BY <1>2, <1>5, <1>6 DEF TypeOK
  <1> QED
    BY <1>4, <1>7 DEF WriteJob, TypeOK

(* The queue left by an acknowledged or refused write.                     *)
LEMMA SentQueue ==
    ASSUME TypeOK, NEW ph \in Phones, Sending(ph), Sent(ph)
    PROVE  /\ account[ph] \in Users
           /\ queue[ph][account[ph]] \in Seq(Write)
           /\ queue[ph][account[ph]] # << >>
           /\ Head(queue[ph][account[ph]]) = queue[ph][account[ph]][1]
           /\ Head(queue[ph][account[ph]]) \in Write
           /\ queue' \in [Phones -> [Users -> Seq(Write)]]
           /\ queue'[ph][account[ph]] = Tail(queue[ph][account[ph]])
           /\ \A x \in Phones, u \in Users :
                x # ph \/ u # account[ph] => queue'[x][u] = queue[x][u]
  <1>1. account[ph] \in Users /\ queue[ph][account[ph]] # << >>
    BY DEF TypeOK, Sending
  <1>2. queue[ph][account[ph]] \in Seq(Write)
    BY <1>1 DEF TypeOK
  <1>3. /\ Head(queue[ph][account[ph]]) = queue[ph][account[ph]][1]
        /\ Head(queue[ph][account[ph]]) \in Write
        /\ Tail(queue[ph][account[ph]]) \in Seq(Write)
    BY <1>1, <1>2
  <1> QED
    BY <1>1, <1>2, <1>3 DEF TypeOK, Sent

LEMMA AcknowledgeType ==
    ASSUME TypeOK, NEW ph \in Phones, Acknowledge(ph)
    PROVE  TypeOK'
  <1>1. Sending(ph) /\ Sent(ph)
    BY DEF Acknowledge
  <1>2. jobs' \subseteq JobDoc /\ posts' \subseteq PostDoc
    BY <1>1, SentQueue, WriteKinds DEF Acknowledge, TypeOK
  <1> QED
    BY <1>1, <1>2, SentQueue DEF Acknowledge, TypeOK

(* The queues left by a crash: prefixes of what they were.                 *)
LEMMA CrashQueue ==
    ASSUME TypeOK, NEW ph \in Phones, Crash(ph)
    PROVE  /\ queue' \in [Phones -> [Users -> Seq(Write)]]
           /\ \A x \in Phones, u \in Users :
                /\ DOMAIN queue'[x][u] \subseteq DOMAIN queue[x][u]
                /\ \A i \in DOMAIN queue'[x][u] : queue'[x][u][i] = queue[x][u][i]
  <1>0. PICK v \in Users : \E n \in 0..Len(queue[ph][v]) :
          queue' = [queue EXCEPT ![ph][v] = SubSeq(@, 1, n)]
    BY DEF Crash
  <1>1. PICK n \in 0..Len(queue[ph][v]) :
          queue' = [queue EXCEPT ![ph][v] = SubSeq(@, 1, n)]
    BY <1>0
  <1> DEFINE q == queue[ph][v]
  <1>2. q \in Seq(Write) /\ n \in 0..Len(q)
    BY <1>1 DEF TypeOK
  <1> HIDE DEF q
  <1>3. /\ SubSeq(q, 1, n) \in Seq(Write)
        /\ DOMAIN SubSeq(q, 1, n) \subseteq DOMAIN q
        /\ \A i \in DOMAIN SubSeq(q, 1, n) : SubSeq(q, 1, n)[i] = q[i]
    BY <1>2
  <1>4. /\ queue'[ph][v] = SubSeq(q, 1, n)
        /\ \A x \in Phones, u \in Users : x # ph \/ u # v => queue'[x][u] = queue[x][u]
    BY <1>1 DEF TypeOK, q
  <1> QED
    BY <1>1, <1>3, <1>4 DEF TypeOK, q

LEMMA CrashType ==
    ASSUME TypeOK, ConstantsAssumption, NEW ph \in Phones, Crash(ph)
    PROVE  TypeOK'
  <1>1. draft' \in [Posts -> Draft]
    BY LoseDraftsType DEF Crash
  <1>2. crashes' \in 0..MaxCrashes
    BY DEF Crash, TypeOK, ConstantsAssumption
  <1> QED
    BY <1>1, <1>2, CrashQueue DEF Crash, TypeOK

LEMMA NextType == TypeOK /\ ConstantsAssumption /\ [Next]_vars => TypeOK'
  <1> SUFFICES ASSUME TypeOK, ConstantsAssumption, [Next]_vars
               PROVE  TypeOK'
    OBVIOUS
  <1>1. ASSUME NEW p \in Posts, Continue(p) PROVE TypeOK'
    <2>1. ASSUME NEW pic \in Pictures, DieWithoutUser(p, pic) PROVE TypeOK'
      <3>1. draft[p].phone \in Phones
        BY <2>1, Started DEF DieWithoutUser, Uploading
      <3>2. draft' \in [Posts -> Draft]
        BY <2>1, <3>1, LoseDraftsType DEF DieWithoutUser
      <3> QED
        BY <2>1, <3>2 DEF DieWithoutUser, TypeOK
    <2> QED
      BY <1>1, <2>1, DraftsType, WriteJobType DEF Continue
  <1>2. ASSUME NEW ph \in Phones, NEW p \in Posts, NEW pics \in SUBSET Pictures,
               Post(ph, p, pics)
        PROVE  TypeOK'
    BY <1>2, PostType
  <1>3. ASSUME NEW ph \in Phones, SignOut(ph) PROVE TypeOK'
    BY <1>3 DEF SignOut, TypeOK
  <1>4. ASSUME NEW ph \in Phones, NEW u \in Users, SignIn(ph, u) PROVE TypeOK'
    BY <1>4 DEF SignIn, TypeOK, ConstantsAssumption
  <1>5. ASSUME NEW ph \in Phones, Acknowledge(ph) PROVE TypeOK'
    BY <1>5, AcknowledgeType
  <1>6. ASSUME NEW ph \in Phones, Refuse(ph) PROVE TypeOK'
    BY <1>6, SentQueue DEF Refuse, TypeOK
  <1>7. ASSUME NEW ph \in Phones, Crash(ph) PROVE TypeOK'
    BY <1>7, CrashType
  <1>8. CASE UNCHANGED vars
    BY <1>8 DEF vars, TypeOK
  <1> QED
    BY <1>1, <1>2, <1>3, <1>4, <1>5, <1>6, <1>7, <1>8 DEF Next

(* Every reachable state is of the declared types.                         *)
THEOREM TypeCorrect == Spec => []TypeOK
  <1>1. Init => TypeOK
    BY InitType, ConstantsAssumption
  <1>2. TypeOK /\ [Next]_vars => TypeOK'
    BY NextType, ConstantsAssumption
  <1> QED
    BY <1>1, <1>2, PTL DEF Spec

-----------------------------------------------------------------------------
(* The order of the queues.                                                *)

LEMMA InitBoard == Init => BoardInv
  BY DEF Init, BoardInv, QueuedOnce

(* A step that leaves the documents, the queues and the written posts as   *)
(* they were.                                                              *)
LEMMA DraftBoard ==
    ASSUME TypeOK, BoardInv,
           \A p \in Posts : draft[p].stage = "written" => draft'[p] = draft[p],
           UNCHANGED <<jobs, queue>>
    PROVE  BoardInv'
  <1>1. ASSUME NEW j \in JobDoc, IsWritten(j) PROVE IsWritten(j)'
    BY <1>1 DEF IsWritten, JobDoc
  <1>2. \A j \in jobs' : IsWritten(j)'
    BY <1>1 DEF BoardInv, TypeOK
  <1>3. ASSUME NEW ph \in Phones, NEW u \in Users, NEW i \in DOMAIN queue[ph][u]
        PROVE  Ready(ph, u, i)'
    <2>1. queue[ph][u] \in Seq(Write)
      BY DEF TypeOK
    <2>2. queue[ph][u][i] \in Write
      BY <2>1
    <2>3. Ready(ph, u, i)
      BY DEF BoardInv
    <2> QED
      BY <1>1, <2>2, <2>3, WriteKinds DEF Ready, Names
  <1> QED
    BY <1>2, <1>3 DEF BoardInv, QueuedOnce

(* The queues shortened at their ends.                                     *)
LEMMA CrashBoard ==
    ASSUME TypeOK, BoardInv, NEW ph \in Phones, Crash(ph)
    PROVE  BoardInv'
  <1>1. \A p \in Posts : draft[p].stage = "written" => draft'[p] = draft[p]
    BY DEF Crash, LoseDrafts, InMemory
  <1>2. ASSUME NEW j \in JobDoc, IsWritten(j) PROVE IsWritten(j)'
    BY <1>1, <1>2 DEF IsWritten, JobDoc
  <1>3. jobs' = jobs
    BY DEF Crash
  <1>4. \A x \in Phones, u \in Users :
          /\ DOMAIN queue'[x][u] \subseteq DOMAIN queue[x][u]
          /\ \A i \in DOMAIN queue'[x][u] : queue'[x][u][i] = queue[x][u][i]
    BY CrashQueue
  <1>5. ASSUME NEW x \in Phones, NEW u \in Users, NEW i \in DOMAIN queue'[x][u]
        PROVE  Ready(x, u, i)'
    <2>1. queue[x][u] \in Seq(Write) /\ queue'[x][u] \in Seq(Write)
      BY CrashQueue DEF TypeOK
    <2>2. i \in DOMAIN queue[x][u] /\ queue'[x][u][i] = queue[x][u][i]
      BY <1>4
    <2>3. queue[x][u][i] \in Write
      BY <2>1, <2>2
    <2>4. Ready(x, u, i)
      BY <2>2 DEF BoardInv
    <2>5. ASSUME NEW k \in 1..(i - 1)
          PROVE  queue'[x][u][k] = queue[x][u][k]
      <3>1. k \in DOMAIN queue'[x][u]
        BY <2>1, <2>2
      <3> QED
        BY <1>4, <3>1
    <2> QED
      BY <1>2, <1>3, <2>2, <2>3, <2>4, <2>5, WriteKinds DEF Ready, Names
  <1>6. \A j \in jobs' : IsWritten(j)'
    BY <1>2, <1>3 DEF BoardInv, TypeOK
  <1>7. QueuedOnce'
    <2> SUFFICES ASSUME NEW x \in Phones, NEW x2 \in Phones,
                        NEW v \in Users, NEW v2 \in Users,
                        NEW i \in DOMAIN queue'[x][v], NEW k \in DOMAIN queue'[x2][v2],
                        queue'[x][v][i].op = "job", queue'[x2][v2][k].op = "job",
                        queue'[x][v][i].job.id = queue'[x2][v2][k].job.id
                 PROVE  x = x2 /\ v = v2 /\ i = k
      BY DEF QueuedOnce
    <2>1. i \in DOMAIN queue[x][v] /\ queue'[x][v][i] = queue[x][v][i]
      BY <1>4
    <2>2. k \in DOMAIN queue[x2][v2] /\ queue'[x2][v2][k] = queue[x2][v2][k]
      BY <1>4
    <2> QED
      BY <2>1, <2>2 DEF BoardInv, QueuedOnce
  <1> QED
    BY <1>5, <1>6, <1>7 DEF BoardInv

LEMMA Extended ==
    ASSUME NEW s \in Seq(Write), NEW t \in Seq(Write)
    PROVE  /\ Len(s \o t) = Len(s) + Len(t)
           /\ DOMAIN (s \o t) = 1..(Len(s) + Len(t))
           /\ \A i \in 1..Len(s) : (s \o t)[i] = s[i]
           /\ \A i \in 1..Len(t) : (s \o t)[Len(s) + i] = t[i]
           /\ DOMAIN s = 1..Len(s)
  OBVIOUS

LEMMA TwoMore ==
    ASSUME NEW s \in Seq(Write), NEW t \in Seq(Write), Len(t) = 2,
           NEW n \in Nat, n = Len(s)
    PROVE  /\ DOMAIN (s \o t) = 1..(n + 2)
           /\ \A i \in 1..n : (s \o t)[i] = s[i]
           /\ (s \o t)[n + 1] = t[1] /\ (s \o t)[n + 2] = t[2]
           /\ DOMAIN s = 1..n
  <1>1. 1 \in 1..Len(t) /\ 2 \in 1..Len(t)
    OBVIOUS
  <1>2. (s \o t)[Len(s) + 1] = t[1] /\ (s \o t)[Len(s) + 2] = t[2]
    BY <1>1, Extended, Zenon
  <1>3. DOMAIN (s \o t) = 1..(Len(s) + 2)
    <2>1. PICK d : d = DOMAIN (s \o t)
      OBVIOUS
    <2>2. d = 1..(Len(s) + Len(t))
      BY <2>1, Extended, Zenon
    <2>3. d = 1..(Len(s) + 2)
      BY <2>2
    <2> QED
      BY <2>1, <2>3, Zenon
  <1>4. (\A i \in 1..Len(s) : (s \o t)[i] = s[i]) /\ DOMAIN s = 1..Len(s)
    BY Extended, Zenon
  <1> QED
    BY <1>2, <1>3, <1>4, Zenon

LEMMA Popped ==
    ASSUME NEW s \in Seq(Write), s # << >>
    PROVE  /\ 1 \in DOMAIN s /\ DOMAIN s \subseteq Nat
           /\ \A i \in DOMAIN Tail(s) : i + 1 \in DOMAIN s /\ Tail(s)[i] = s[i + 1]
           /\ \A i \in DOMAIN s : i # 1 =>
                i - 1 \in DOMAIN Tail(s) /\ Tail(s)[i - 1] = s[i]
  OBVIOUS

(* The two writes of a post that was not written before.                   *)
LEMMA WriteJobBoard ==
    ASSUME TypeOK, ConstantsAssumption, BoardInv,
           NEW p \in Posts, NEW pic \in Pictures, WriteJob(p, pic)
    PROVE  BoardInv'
  <1>1. draft[p] \in [stage: {"numbering", "uploading", "written", "lost"},
                      phone: Phones, num: Nat,
                      pictures: SUBSET Pictures, uploaded: SUBSET Pictures]
    BY Started DEF WriteJob, Uploading
  <1>2a. PICK ph \in Phones : ph = draft[p].phone
    BY <1>1
  <1>2b. PICK u \in Users : u = account[ph]
    BY <1>2a DEF WriteJob, TypeOK
  <1>2c. PICK job : job = [id |-> p, num |-> draft[p].num, poster |-> u,
                           pictures |-> draft[p].uploaded \cup {pic}]
    OBVIOUS
  <1>2d. PICK entry : entry = [id |-> p, poster |-> u]
    OBVIOUS
  <1>2. ph \in Phones /\ u \in Users
    BY <1>2a, <1>2b
  <1>3. job \in JobDoc /\ job.id = p /\ job.pictures = draft[p].pictures /\ Names(job, entry)
    BY <1>1, <1>2, <1>2a, <1>2b, <1>2c, <1>2d DEF JobDoc, WriteJob, LastUpload, Names
  <1>4. /\ draft'[p].stage = "written" /\ draft'[p].pictures = draft[p].pictures
        /\ \A x \in Posts : x # p => draft'[x] = draft[x]
        /\ draft[p].stage = "uploading"
    BY <1>1 DEF WriteJob, Uploading, TypeOK
  <1>5. queue' = [queue EXCEPT ![ph][u] = @ \o JobWrites(p, u, job)]
    BY <1>2a, <1>2b, <1>2c DEF WriteJob
  <1>6. jobs' = jobs
    BY DEF WriteJob
  <1>7. PICK n \in Nat : n = Len(queue[ph][u])
    BY <1>2 DEF TypeOK
  <1>8. /\ DOMAIN queue'[ph][u] = 1..(n + 2)
        /\ \A i \in 1..n : queue'[ph][u][i] = queue[ph][u][i]
        /\ queue'[ph][u][n + 1] = [op |-> "job", job |-> job]
        /\ queue'[ph][u][n + 2] = [op |-> "post", post |-> entry]
        /\ DOMAIN queue[ph][u] = 1..n
    <2> DEFINE q == queue[ph][u]
               w == JobWrites(p, u, job)
    <2>1. q \in Seq(Write) /\ Len(q) = n
      BY <1>2, <1>7 DEF TypeOK
    <2>2. /\ w \in Seq(Write) /\ Len(w) = 2 /\ w[1] = [op |-> "job", job |-> job]
          /\ w[2] = [op |-> "post", post |-> entry]
      BY <1>2, <1>2d, <1>3, JobWritesType
    <2>3. queue'[ph][u] = q \o w
      BY <1>2, <1>5 DEF TypeOK
    <2> HIDE DEF q, w
    <2>4. /\ DOMAIN (q \o w) = 1..(n + 2)
          /\ \A i \in 1..n : (q \o w)[i] = q[i]
          /\ (q \o w)[n + 1] = w[1] /\ (q \o w)[n + 2] = w[2]
          /\ DOMAIN q = 1..n
      BY <2>1, <2>2, TwoMore
    <2> QED
      BY <2>2, <2>3, <2>4 DEF q
  <1>9. \A x \in Phones, v \in Users : x # ph \/ v # u => queue'[x][v] = queue[x][v]
    BY <1>2, <1>5 DEF TypeOK
  <1>10. ASSUME NEW j \in JobDoc, IsWritten(j) PROVE IsWritten(j)' /\ j.id # p
    BY <1>4, <1>10 DEF IsWritten, JobDoc
  <1>11. \A x \in Phones, v \in Users : \A i \in DOMAIN queue[x][v] :
           /\ queue[x][v][i] \in Write
           /\ Ready(x, v, i)
           /\ queue[x][v][i].op = "job" => queue[x][v][i].job.id # p
    <2> TAKE x \in Phones, v \in Users
    <2> TAKE i \in DOMAIN queue[x][v]
    <2>1. queue[x][v][i] \in Write
      BY DEF TypeOK
    <2>2. Ready(x, v, i)
      BY DEF BoardInv
    <2> QED
      BY <1>10, <2>1, <2>2, WriteKinds DEF Ready
  <1>12. \A j \in jobs' : IsWritten(j)' /\ j.id # p
    BY <1>6, <1>10 DEF BoardInv, TypeOK
  <1>13. ASSUME NEW x \in Phones, NEW v \in Users, NEW i \in DOMAIN queue[x][v]
         PROVE  Ready(x, v, i)'
    <2>1. /\ queue'[x][v][i] = queue[x][v][i]
          /\ \A k \in 1..(i - 1) : queue'[x][v][k] = queue[x][v][k]
      <3>1. CASE x = ph /\ v = u
        BY <1>7, <1>8, <3>1
      <3>2. CASE x # ph \/ v # u
        BY <1>9, <3>2
      <3> QED
        BY <3>1, <3>2
    <2> QED
      BY <1>6, <1>10, <1>11, <2>1, WriteKinds DEF Ready, Names
  <1>14. Ready(ph, u, n + 1)'
    <2>1. IsWritten(job)'
      BY <1>3, <1>4 DEF IsWritten
    <2>2. \A j \in jobs' : j.id # job.id
      BY <1>3, <1>12
    <2>3. /\ queue'[ph][u][n + 1].op = "job" /\ queue'[ph][u][n + 1].op # "post"
          /\ queue'[ph][u][n + 1].job = job
      BY <1>8
    <2> QED
      BY <2>1, <2>2, <2>3 DEF Ready
  <1>15. Ready(ph, u, n + 2)'
    <2>1. n + 1 \in 1..((n + 2) - 1)
      BY <1>7
    <2>2. /\ queue'[ph][u][n + 2].op = "post" /\ queue'[ph][u][n + 2].op # "job"
          /\ queue'[ph][u][n + 2].post = entry
          /\ queue'[ph][u][n + 1].op = "job" /\ queue'[ph][u][n + 1].job = job
      BY <1>8
    <2> QED
      BY <1>3, <2>1, <2>2 DEF Ready, Names
  <1>16. ASSUME NEW x \in Phones, NEW v \in Users, NEW i \in DOMAIN queue'[x][v]
         PROVE  /\ i \in DOMAIN queue[x][v] \/ (x = ph /\ v = u /\ i \in {n + 1, n + 2})
                /\ i \in DOMAIN queue[x][v] => queue'[x][v][i] = queue[x][v][i]
                /\ Ready(x, v, i)'
    <2>1. CASE x = ph /\ v = u
      <3>0. i \in 1..(n + 2)
        BY <1>8, <2>1
      <3>1. i \in 1..n \/ i \in {n + 1, n + 2}
        BY <1>7, <3>0
      <3>2. n + 1 \notin DOMAIN queue[x][v] /\ n + 2 \notin DOMAIN queue[x][v]
        BY <1>7, <1>8, <2>1
      <3> QED
        BY <1>8, <1>13, <1>14, <1>15, <2>1, <3>1, <3>2, Zenon
    <2>2. CASE x # ph \/ v # u
      BY <1>9, <1>13, <2>2
    <2> QED
      BY <2>1, <2>2
  <1>17. QueuedOnce'
    <2> SUFFICES ASSUME NEW x \in Phones, NEW x2 \in Phones,
                        NEW v \in Users, NEW v2 \in Users,
                        NEW i \in DOMAIN queue'[x][v], NEW k \in DOMAIN queue'[x2][v2],
                        queue'[x][v][i].op = "job", queue'[x2][v2][k].op = "job",
                        queue'[x][v][i].job.id = queue'[x2][v2][k].job.id
                 PROVE  x = x2 /\ v = v2 /\ i = k
      BY DEF QueuedOnce
    <2>1. CASE i \in DOMAIN queue[x][v] /\ k \in DOMAIN queue[x2][v2]
      <3>1. /\ queue'[x][v][i] = queue[x][v][i]
            /\ queue'[x2][v2][k] = queue[x2][v2][k]
        BY <1>16, <2>1
      <3> QED
        BY <2>1, <3>1 DEF BoardInv, QueuedOnce
    <2>2. i \notin DOMAIN queue[x][v] => x = ph /\ v = u /\ i = n + 1
      BY <1>8, <1>16
    <2>3. k \notin DOMAIN queue[x2][v2] => x2 = ph /\ v2 = u /\ k = n + 1
      BY <1>8, <1>16
    <2>4. CASE i \in DOMAIN queue[x][v] /\ k \notin DOMAIN queue[x2][v2]
      BY <1>3, <1>8, <1>11, <1>16, <2>3, <2>4
    <2>5. CASE i \notin DOMAIN queue[x][v] /\ k \in DOMAIN queue[x2][v2]
      BY <1>3, <1>8, <1>11, <1>16, <2>2, <2>5
    <2> QED
      BY <2>1, <2>2, <2>3, <2>4, <2>5
  <1> QED
    BY <1>12, <1>16, <1>17 DEF BoardInv

(* A queue without its oldest write, which is an entry or a job that the   *)
(* server now has.                                                         *)
LEMMA SentBoard ==
    ASSUME TypeOK, BoardInv, NEW ph \in Phones, Sending(ph), Sent(ph),
           UNCHANGED draft,
           NEW w \in Write, w = Head(queue[ph][account[ph]]),
           jobs' = IF w.op = "job" THEN jobs \cup {w.job} ELSE jobs
    PROVE  BoardInv'
  <1>1. PICK u \in Users : u = account[ph]
    BY SentQueue
  <1>2. PICK q \in Seq(Write) : q = queue[ph][u]
    BY <1>1 DEF TypeOK
  <1>3. /\ q # << >> /\ w = q[1] /\ queue'[ph][u] = Tail(q)
        /\ \A x \in Phones, v \in Users : x # ph \/ v # u => queue'[x][v] = queue[x][v]
    BY <1>1, <1>2, SentQueue
  <1>4. /\ 1 \in DOMAIN q /\ DOMAIN q \subseteq Nat
        /\ \A i \in DOMAIN Tail(q) : i + 1 \in DOMAIN q /\ Tail(q)[i] = q[i + 1]
        /\ \A i \in DOMAIN q : i # 1 => i - 1 \in DOMAIN Tail(q) /\ Tail(q)[i - 1] = q[i]
        /\ DOMAIN Tail(q) \subseteq Nat \ {0}
    BY <1>3, Popped
  <1>5. \A j \in JobDoc : IsWritten(j) => IsWritten(j)'
    BY DEF IsWritten
  <1>6. Ready(ph, u, 1)
    BY <1>2, <1>4 DEF BoardInv
  <1>7. w.op = "job" => /\ w.job \in JobDoc /\ IsWritten(w.job)
                        /\ \A j \in jobs : j.id # w.job.id
    BY <1>2, <1>3, <1>6, WriteKinds DEF Ready
  <1>8. \A j \in jobs' : IsWritten(j)'
    BY <1>5, <1>7 DEF BoardInv, TypeOK
  <1>9. ASSUME NEW x \in Phones, NEW v \in Users, NEW i \in DOMAIN queue'[x][v]
        PROVE  \E k \in DOMAIN queue[x][v] :
                 /\ queue'[x][v][i] = queue[x][v][k]
                 /\ k \in Nat /\ i \in Nat
                 /\ k = IF x = ph /\ v = u THEN i + 1 ELSE i
    <2>1. CASE x = ph /\ v = u
      <3>1. /\ i \in DOMAIN Tail(q) /\ queue'[x][v][i] = Tail(q)[i]
            /\ queue[x][v] = q
        BY <1>2, <1>3, <2>1
      <3>2. i + 1 \in DOMAIN q /\ i \in Nat /\ Tail(q)[i] = q[i + 1]
        BY <1>4, <3>1
      <3> QED
        BY <2>1, <3>1, <3>2
    <2>2. CASE x # ph \/ v # u
      BY <1>3, <2>2 DEF TypeOK
    <2> QED
      BY <2>1, <2>2
  <1>10. ASSUME NEW x \in Phones, NEW v \in Users, NEW i \in DOMAIN queue'[x][v]
         PROVE  Ready(x, v, i)'
    <2>1. PICK k \in DOMAIN queue[x][v] :
            /\ queue'[x][v][i] = queue[x][v][k]
            /\ k \in Nat /\ i \in Nat
            /\ k = IF x = ph /\ v = u THEN i + 1 ELSE i
      BY <1>9
    <2>2. PICK y \in Write : y = queue[x][v][k]
      BY DEF TypeOK
    <2>3. Ready(x, v, k)
      BY DEF BoardInv
    <2>4. ASSUME y.op = "job"
          PROVE  IsWritten(y.job)' /\ \A j \in jobs' : j.id # y.job.id
      <3>1. y.job \in JobDoc /\ IsWritten(y.job) /\ \A j \in jobs : j.id # y.job.id
        BY <2>2, <2>3, <2>4, WriteKinds DEF Ready
      <3>2. w.op = "job" => w.job.id # y.job.id
        <4> SUFFICES ASSUME w.op = "job", w.job.id = y.job.id PROVE FALSE
          OBVIOUS
        <4>1. x = ph /\ v = u /\ k = 1
          BY <1>2, <1>3, <1>4, <2>2, <2>4 DEF BoardInv, QueuedOnce
        <4>2. 0 \in DOMAIN queue'[ph][u]
          BY <2>1, <4>1
        <4> QED
          BY <1>3, <1>4, <4>2
      <3> QED
        BY <1>5, <3>1, <3>2
    <2>5. ASSUME y.op = "post"
          PROVE  \/ \E j \in jobs' : Names(j, y.post)
                 \/ \E m \in 1..(i - 1) : /\ queue'[x][v][m].op = "job"
                                          /\ Names(queue'[x][v][m].job, y.post)
      <3>1. CASE \E j \in jobs : Names(j, y.post)
        BY <3>1
      <3>2. ASSUME NEW m \in 1..(k - 1), queue[x][v][m].op = "job",
                   Names(queue[x][v][m].job, y.post)
            PROVE  \/ \E j \in jobs' : Names(j, y.post)
                   \/ \E n \in 1..(i - 1) : /\ queue'[x][v][n].op = "job"
                                            /\ Names(queue'[x][v][n].job, y.post)
        <4>1. CASE x = ph /\ v = u
          <5>1. CASE m = 1
            <6>1. w = queue[x][v][m]
              BY <1>2, <1>3, <4>1, <5>1
            <6> QED
              BY <3>2, <6>1
          <5>2. CASE m # 1
            <6>1. m \in DOMAIN q
              <7>1. q \in Seq(Write) /\ k \in DOMAIN q
                BY <1>2, <2>1, <4>1
              <7> QED
                BY <2>1, <7>1
            <6>2. m - 1 \in 1..(i - 1)
              BY <2>1, <4>1, <5>2
            <6>3. queue'[x][v][m - 1] = queue[x][v][m]
              BY <1>2, <1>3, <1>4, <4>1, <5>2, <6>1
            <6> QED
              BY <3>2, <6>2, <6>3
          <5> QED
            BY <5>1, <5>2
        <4>2. CASE x # ph \/ v # u
          <5>1. queue'[x][v] = queue[x][v] /\ k = i
            BY <1>3, <2>1, <4>2
          <5> QED
            BY <3>2, <5>1
        <4> QED
          BY <4>1, <4>2
      <3> QED
        BY <2>2, <2>3, <2>5, <3>1, <3>2 DEF Ready
    <2> QED
      BY <2>1, <2>2, <2>4, <2>5 DEF Ready
  <1>11. QueuedOnce'
    <2> SUFFICES ASSUME NEW x \in Phones, NEW x2 \in Phones,
                        NEW v \in Users, NEW v2 \in Users,
                        NEW i \in DOMAIN queue'[x][v], NEW k \in DOMAIN queue'[x2][v2],
                        queue'[x][v][i].op = "job", queue'[x2][v2][k].op = "job",
                        queue'[x][v][i].job.id = queue'[x2][v2][k].job.id
                 PROVE  x = x2 /\ v = v2 /\ i = k
      BY DEF QueuedOnce
    <2>1. PICK m \in DOMAIN queue[x][v] :
            /\ queue'[x][v][i] = queue[x][v][m]
            /\ m \in Nat /\ i \in Nat
            /\ m = IF x = ph /\ v = u THEN i + 1 ELSE i
      BY <1>9
    <2>2. PICK n \in DOMAIN queue[x2][v2] :
            /\ queue'[x2][v2][k] = queue[x2][v2][n]
            /\ n \in Nat /\ k \in Nat
            /\ n = IF x2 = ph /\ v2 = u THEN k + 1 ELSE k
      BY <1>9
    <2>3. x = x2 /\ v = v2 /\ m = n
      <3>1. /\ queue[x][v][m].op = "job" /\ queue[x2][v2][n].op = "job"
            /\ queue[x][v][m].job.id = queue[x2][v2][n].job.id
        BY <2>1, <2>2, Zenon
      <3>2. QueuedOnce
        BY DEF BoardInv
      <3>3. \A a \in DOMAIN queue[x][v], b \in DOMAIN queue[x2][v2] :
              /\ queue[x][v][a].op = "job" /\ queue[x2][v2][b].op = "job"
              /\ queue[x][v][a].job.id = queue[x2][v2][b].job.id
              => x = x2 /\ v = v2 /\ a = b
        BY <3>2 DEF QueuedOnce
      <3> QED
        BY <3>1, <3>3, Zenon
    <2> QED
      BY <2>1, <2>2, <2>3
  <1> QED
    BY <1>8, <1>10, <1>11 DEF BoardInv

(* No job is refused: the queue moves on from entries only.                *)
JobsAccepted == "job" \notin Failing

LEMMA NextBoard ==
    TypeOK /\ BoardInv /\ ConstantsAssumption /\ JobsAccepted /\ [Next]_vars => BoardInv'
  <1> SUFFICES ASSUME TypeOK, BoardInv, ConstantsAssumption, JobsAccepted, [Next]_vars
               PROVE  BoardInv'
    OBVIOUS
  <1>1. ASSUME NEW p \in Posts, Continue(p) PROVE BoardInv'
    <2>1. ASSUME NEW pic \in Pictures, WriteJob(p, pic) PROVE BoardInv'
      BY <2>1, WriteJobBoard
    <2>2. CASE FindNumber(p) \/ NumberError(p)
      BY <2>2, DraftBoard DEF FindNumber, NumberError, TypeOK
    <2>3. ASSUME NEW pic \in Pictures, Upload(p, pic) \/ UploadError(p, pic)
          PROVE  BoardInv'
      BY <2>3, DraftBoard DEF Upload, UploadError, Uploading, TypeOK
    <2>4. ASSUME NEW pic \in Pictures, DieWithoutUser(p, pic) PROVE BoardInv'
      BY <2>4, DraftBoard DEF DieWithoutUser, LoseDrafts, InMemory
    <2> QED
      BY <1>1, <2>1, <2>2, <2>3, <2>4 DEF Continue
  <1>2. ASSUME NEW ph \in Phones, NEW p \in Posts, NEW pics \in SUBSET Pictures,
               Post(ph, p, pics)
        PROVE  BoardInv'
    BY <1>2, DraftBoard DEF Post, TypeOK
  <1>3. ASSUME NEW ph \in Phones, SignOut(ph) \/ \E u \in Users : SignIn(ph, u)
        PROVE  BoardInv'
    BY <1>3, DraftBoard DEF SignOut, SignIn
  <1>4. ASSUME NEW ph \in Phones, Acknowledge(ph) PROVE BoardInv'
    BY <1>4, SentBoard, SentQueue DEF Acknowledge
  <1>5. ASSUME NEW ph \in Phones, Refuse(ph) PROVE BoardInv'
    <2>1. Head(queue[ph][account[ph]]).op # "job"
      BY <1>5 DEF Refuse, JobsAccepted
    <2> QED
      BY <1>5, <2>1, SentBoard, SentQueue DEF Refuse
  <1>6. ASSUME NEW ph \in Phones, Crash(ph) PROVE BoardInv'
    BY <1>6, CrashBoard
  <1>7. CASE UNCHANGED vars
    BY <1>7, DraftBoard DEF vars
  <1> QED
    BY <1>1, <1>2, <1>3, <1>4, <1>5, <1>6, <1>7 DEF Next

(* BoardInv holds of every run in which no job document is refused.        *)
THEOREM AlwaysOrdered == JobsAccepted /\ Spec => [](TypeOK /\ BoardInv)
  <1>1. JobsAccepted /\ Init => JobsAccepted /\ TypeOK /\ BoardInv
    BY InitType, InitBoard, ConstantsAssumption
  <1>2. (JobsAccepted /\ TypeOK /\ BoardInv) /\ [Next]_vars
            => (JobsAccepted /\ TypeOK /\ BoardInv)'
    <2> SUFFICES ASSUME JobsAccepted, TypeOK, BoardInv, [Next]_vars
                 PROVE  JobsAccepted' /\ TypeOK' /\ BoardInv'
      OBVIOUS
    <2>1. TypeOK' /\ BoardInv'
      BY NextType, NextBoard, ConstantsAssumption
    <2>2. JobsAccepted'
      BY DEF JobsAccepted
    <2> QED
      BY <2>1, <2>2
  <1> QED
    BY <1>1, <1>2, PTL DEF Spec

-----------------------------------------------------------------------------
(* The numbers.                                                            *)

(* A job keeps the number its post found.                                  *)
NumbersKept ==
    /\ \A j \in jobs : j.num = draft[j.id].num
    /\ \A ph \in Phones, u \in Users : \A i \in DOMAIN queue[ph][u] :
         LET w == queue[ph][u][i] IN w.op = "job" => w.job.num = draft[w.job.id].num

OlderWritten == \A p \in Posts : \A i \in older[p] : draft[i].stage = "written"

AboveOlder(p) == \A i \in older[p] : draft[i].num < draft[p].num

SeesOlder(p) == \A i \in older[p] : \E j \in SeenJobs(draft[p].phone) : j.id = i

HasAccount(p) == account[draft[p].phone] # NoUser

(* What the phone could see when the Post button was tapped it sees until  *)
(* the number query is answered, if the account is still the same.         *)
NumbersGrow ==
    switches = 0 =>
        \A p \in Posts :
            /\ draft[p].stage = "numbering" /\ HasAccount(p) => SeesOlder(p)
            /\ draft[p].stage = "uploading" /\ HasAccount(p) => AboveOlder(p)
            /\ draft[p].stage = "written" => AboveOlder(p)

NumInv == NumbersKept /\ OlderWritten /\ NumbersGrow

LEMMA InitNumbers == Init => NumInv
  BY DEF Init, NumInv, NumbersKept, OlderWritten, NumbersGrow, Blank

(* Every job a phone sees is written, with its post's number.              *)
LEMMA SeenNumbers ==
    ASSUME TypeOK, BoardInv, NumbersKept, NEW ph \in Phones, NEW j \in SeenJobs(ph)
    PROVE  /\ j \in JobDoc
           /\ draft[j.id].stage = "written"
           /\ j.num = draft[j.id].num
  <1>1. CASE j \in jobs
    BY <1>1 DEF TypeOK, BoardInv, IsWritten, NumbersKept
  <1>2. CASE j \notin jobs
    <2>1. account[ph] \in Users
      BY <1>2 DEF SeenJobs, TypeOK
    <2>2. PICK q : q = queue[ph][account[ph]]
      OBVIOUS
    <2>3. PICK i \in DOMAIN q : q[i].op = "job" /\ j = q[i].job
      BY <1>2, <2>2 DEF SeenJobs
    <2>4. q[i] \in Write
      BY <2>1, <2>2, <2>3 DEF TypeOK
    <2>5. Ready(ph, account[ph], i)
      BY <2>1, <2>2, <2>3 DEF BoardInv
    <2>6. IsWritten(j)
      BY <2>2, <2>3, <2>5 DEF Ready
    <2>7. j.num = draft[j.id].num
      BY <2>1, <2>2, <2>3 DEF NumbersKept
    <2> QED
      BY <2>3, <2>4, <2>6, <2>7, WriteKinds DEF IsWritten
  <1> QED
    BY <1>1, <1>2

(* The numbers stay while the documents, the queues and what is written do.*)
LEMMA StillNumbers ==
    ASSUME TypeOK, BoardInv, NumbersKept,
           \A p \in Posts : draft[p].stage = "written" => draft'[p] = draft[p],
           UNCHANGED <<jobs, queue>>
    PROVE  NumbersKept'
  <1>1. \A j \in jobs : j.id \in Posts /\ draft[j.id].stage = "written"
    BY DEF TypeOK, JobDoc, BoardInv, IsWritten
  <1>2. ASSUME NEW ph \in Phones, NEW u \in Users, NEW i \in DOMAIN queue[ph][u],
               queue[ph][u][i].op = "job"
        PROVE  queue[ph][u][i].job.num = draft'[queue[ph][u][i].job.id].num
    <2>1. PICK w \in Write : w = queue[ph][u][i]
      BY DEF TypeOK
    <2>2. w.job \in JobDoc /\ IsWritten(w.job)
      BY <1>2, <2>1, WriteKinds DEF BoardInv, Ready
    <2>3. draft'[w.job.id] = draft[w.job.id]
      BY <2>2 DEF IsWritten, JobDoc
    <2> QED
      BY <1>2, <2>1, <2>3 DEF NumbersKept
  <1> QED
    BY <1>1, <1>2 DEF NumbersKept

(* A post whose phone sees no less.                                        *)
LEMMA StillSeen ==
    ASSUME NEW p \in Posts, NEW ph \in Phones, ph = draft[p].phone, ph = draft'[p].phone,
           older'[p] = older[p], \A j \in SeenJobs(ph) : j \in SeenJobs(ph)', SeesOlder(p)
    PROVE  SeesOlder(p)'
  <1>1. SeenJobs(draft[p].phone)' = SeenJobs(ph)'
    BY DEF SeenJobs
  <1>2. SeenJobs(draft[p].phone) = SeenJobs(ph)
    BY DEF SeenJobs
  <1> QED
    BY <1>1, <1>2 DEF SeesOlder

LEMMA SameSeen ==
    ASSUME UNCHANGED <<jobs, queue, account>>
    PROVE  \A ph \in Phones : \A j \in SeenJobs(ph) : j \in SeenJobs(ph)'
  BY DEF SeenJobs

(* A step after which each post is where it was or lost, and a phone with  *)
(* an account sees what it saw, unless all its unnumbered posts are lost.  *)
LEMMA NumbersStay ==
    ASSUME TypeOK, BoardInv, NumInv, NumbersKept', UNCHANGED older,
           \A x \in Posts : draft[x].stage = "written" => draft'[x] = draft[x],
           \A x \in Posts :
              \/ draft'[x].stage \in {"blank", "lost"}
              \/ /\ draft'[x].stage = draft[x].stage
                 /\ draft'[x].phone = draft[x].phone
                 /\ draft'[x].num = draft[x].num,
           switches' = 0 => switches = 0,
           switches' = 0 => \A ph \in Phones : account'[ph] # NoUser =>
              /\ account[ph] # NoUser
              /\ \/ \A j \in SeenJobs(ph) : j \in SeenJobs(ph)'
                 \/ \A x \in Posts :
                       draft[x].phone = ph => draft'[x].stage # "numbering"
    PROVE  NumInv'
  <1>1. \A p \in Posts : \A i \in older[p] : i \in Posts /\ draft'[i] = draft[i]
    BY DEF NumInv, OlderWritten, TypeOK
  <1>2. OlderWritten'
    BY <1>1 DEF NumInv, OlderWritten
  <1>3. ASSUME switches' = 0, NEW p \in Posts
        PROVE  /\ draft'[p].stage = "numbering" /\ HasAccount(p)' => SeesOlder(p)'
               /\ draft'[p].stage = "uploading" /\ HasAccount(p)' => AboveOlder(p)'
               /\ draft'[p].stage = "written" => AboveOlder(p)'
    <2>1. /\ draft[p].stage = "numbering" /\ HasAccount(p) => SeesOlder(p)
          /\ draft[p].stage = "uploading" /\ HasAccount(p) => AboveOlder(p)
          /\ draft[p].stage = "written" => AboveOlder(p)
      BY <1>3 DEF NumInv, NumbersGrow
    <2>2. CASE draft'[p].stage \in {"blank", "lost"}
      BY <2>2
    <2>3. CASE draft'[p].stage \notin {"blank", "lost"}
      <3>1. /\ draft'[p].stage = draft[p].stage
            /\ draft'[p].phone = draft[p].phone
            /\ draft'[p].num = draft[p].num
        BY <2>3
      <3>2. draft[p].phone \in Phones
        BY <2>3, <3>1, Started
      <3>3. AboveOlder(p) => AboveOlder(p)'
        BY <1>1, <3>1 DEF AboveOlder
      <3>4. HasAccount(p)' => HasAccount(p)
        BY <1>3, <3>1, <3>2 DEF HasAccount
      <3>5. ASSUME draft'[p].stage = "numbering", HasAccount(p)', SeesOlder(p)
            PROVE  SeesOlder(p)'
        <4>1. PICK ph \in Phones : ph = draft[p].phone
          BY <3>2
        <4>2. \A j \in SeenJobs(ph) : j \in SeenJobs(ph)'
          BY <1>3, <2>3, <3>1, <3>5, <4>1 DEF HasAccount
        <4> QED
          BY <3>1, <3>5, <4>1, <4>2, StillSeen
      <3> QED
        BY <2>1, <3>1, <3>3, <3>4, <3>5
    <2> QED
      BY <2>2, <2>3
  <1>4. NumbersGrow'
    BY <1>3 DEF NumbersGrow
  <1> QED
    BY <1>2, <1>4 DEF NumInv

(* The post's number is above all the phone sees.                          *)
LEMMA FindNumberNumbers ==
    ASSUME TypeOK, BoardInv, NumInv, NEW p \in Posts, FindNumber(p)
    PROVE  NumInv'
  <1>1. /\ draft[p].stage = "numbering" /\ draft[p].phone \in Phones
        /\ UNCHANGED <<jobs, queue, account, switches, older>>
    BY Started DEF FindNumber
  <1>2. PICK n \in NextNumbers(SeenJobs(draft[p].phone)) :
          draft' = [draft EXCEPT ![p].stage = "uploading", ![p].num = n]
    BY DEF FindNumber
  <1>3. /\ draft'[p].stage = "uploading" /\ draft'[p].num = n
        /\ draft'[p].phone = draft[p].phone
        /\ \A x \in Posts : x # p => draft'[x] = draft[x]
    BY <1>1, <1>2, Started DEF TypeOK
  <1>4. NumbersKept'
    BY <1>1, <1>3, StillNumbers DEF NumInv
  <1>5. \A x \in Posts : \A i \in older[x] : i \in Posts /\ draft'[i] = draft[i]
    BY <1>1, <1>3 DEF NumInv, OlderWritten, TypeOK
  <1>6. OlderWritten'
    BY <1>1, <1>5 DEF NumInv, OlderWritten
  <1>7. \A x \in Posts : AboveOlder(x) /\ x # p => AboveOlder(x)'
    BY <1>1, <1>3, <1>5 DEF AboveOlder
  <1>8. ASSUME NEW x \in Posts, x # p, SeesOlder(x), draft[x].stage = "numbering"
        PROVE  SeesOlder(x)'
    <2>1. PICK ph \in Phones : ph = draft[x].phone /\ ph = draft'[x].phone
      BY <1>3, <1>8, Started
    <2> QED
      BY <1>1, <1>8, <2>1, SameSeen, StillSeen
  <1>9. ASSUME switches = 0, HasAccount(p)
        PROVE  AboveOlder(p)'
    <2>1. SeesOlder(p)
      BY <1>1, <1>9 DEF NumInv, NumbersGrow
    <2> SUFFICES ASSUME NEW i \in older[p]
                 PROVE  draft[i].num < n
      BY <1>1, <1>3, <1>5 DEF AboveOlder
    <2>2. PICK j \in SeenJobs(draft[p].phone) : j.id = i
      BY <2>1 DEF SeesOlder
    <2>3. j.num = draft[i].num
      BY <1>1, <2>2, SeenNumbers DEF NumInv
    <2>4. PICK k \in SeenJobs(draft[p].phone) : j.num <= k.num /\ n = k.num + 1
      BY <1>2, <2>2 DEF NextNumbers
    <2>5. j.num \in Nat /\ k.num \in Nat
      BY <1>1, SeenType DEF JobDoc
    <2> QED
      BY <2>3, <2>4, <2>5
  <1>10. NumbersGrow'
    BY <1>1, <1>3, <1>7, <1>8, <1>9 DEF NumInv, NumbersGrow, HasAccount
  <1> QED
    BY <1>4, <1>6, <1>10 DEF NumInv

(* The write is made with it.                                              *)
LEMMA WriteJobNumbers ==
    ASSUME TypeOK, BoardInv, NumInv, NEW p \in Posts, NEW pic \in Pictures, WriteJob(p, pic)
    PROVE  NumInv'
  <1>1. /\ draft[p].stage = "uploading"
        /\ draft[p] \in [stage: {"numbering", "uploading", "written", "lost"},
                         phone: Phones, num: Nat,
                         pictures: SUBSET Pictures, uploaded: SUBSET Pictures]
        /\ UNCHANGED <<jobs, account, switches, older>>
    BY Started DEF WriteJob, Uploading
  <1>2. PICK ph \in Phones, u \in Users : ph = draft[p].phone /\ u = account[ph]
    BY <1>1 DEF WriteJob, TypeOK
  <1>3. PICK job : job = [id |-> p, num |-> draft[p].num, poster |-> u,
                          pictures |-> draft[p].uploaded \cup {pic}]
    OBVIOUS
  <1>4. job \in JobDoc /\ job.id = p /\ job.num = draft[p].num
    BY <1>1, <1>3 DEF JobDoc
  <1>5. /\ draft'[p].stage = "written" /\ draft'[p].num = draft[p].num
        /\ draft'[p].phone = draft[p].phone
        /\ \A x \in Posts : x # p => draft'[x] = draft[x]
    BY <1>1 DEF WriteJob, TypeOK
  <1>6. queue' = [queue EXCEPT ![ph][u] = @ \o JobWrites(p, u, job)]
    BY <1>2, <1>3 DEF WriteJob
  <1>7. PICK q \in Seq(Write), t \in Seq(Write) :
          /\ q = queue[ph][u] /\ t = JobWrites(p, u, job) /\ Len(t) = 2
          /\ t[1] = [op |-> "job", job |-> job]
          /\ t[2] = [op |-> "post", post |-> [id |-> p, poster |-> u]]
    BY <1>4, JobWritesType DEF TypeOK
  <1>8. PICK n \in Nat : n = Len(q)
    OBVIOUS
  <1>9. /\ queue'[ph][u] = q \o t
        /\ \A x \in Phones, v \in Users : x # ph \/ v # u => queue'[x][v] = queue[x][v]
    BY <1>6, <1>7 DEF TypeOK
  <1>10. /\ DOMAIN (q \o t) = 1..(n + 2)
         /\ \A i \in 1..n : (q \o t)[i] = q[i]
         /\ (q \o t)[n + 1] = t[1] /\ (q \o t)[n + 2] = t[2]
         /\ DOMAIN q = 1..n
    <2>1. /\ q \in Seq(Write) /\ t \in Seq(Write) /\ Len(t) = 2
          /\ n \in Nat /\ n = Len(q)
      BY <1>7, <1>8
    <2> QED
      BY <2>1, TwoMore, Zenon
  <1>11. \A x \in Posts : draft[x].stage = "written" => x # p /\ draft'[x] = draft[x]
    BY <1>1, <1>5
  <1>12. NumbersKept'
    <2>1. \A j \in jobs' : j.num = draft'[j.id].num
      BY <1>1, <1>11 DEF NumInv, NumbersKept, BoardInv, IsWritten, TypeOK, JobDoc
    <2>2. ASSUME NEW x \in Phones, NEW v \in Users, NEW i \in DOMAIN queue[x][v],
                 queue[x][v][i].op = "job"
          PROVE  queue[x][v][i].job.num = draft'[queue[x][v][i].job.id].num
      <3>1. PICK w \in Write : w = queue[x][v][i]
        BY DEF TypeOK
      <3>2. w.job \in JobDoc /\ IsWritten(w.job)
        BY <2>2, <3>1, WriteKinds DEF BoardInv, Ready
      <3>3. draft'[w.job.id] = draft[w.job.id]
        BY <1>11, <3>2 DEF IsWritten, JobDoc
      <3> QED
        BY <2>2, <3>1, <3>3 DEF NumInv, NumbersKept
    <2>3. ASSUME NEW x \in Phones, NEW v \in Users, NEW i \in DOMAIN queue'[x][v],
                 queue'[x][v][i].op = "job"
          PROVE  queue'[x][v][i].job.num = draft'[queue'[x][v][i].job.id].num
      <3>1. CASE x = ph /\ v = u
        <4>1. queue'[x][v] = q \o t /\ queue[x][v] = q
          BY <1>7, <1>9, <3>1
        <4>2. i \in 1..n \/ i = n + 1 \/ i = n + 2
          BY <1>8, <1>10, <4>1
        <4>3. CASE i \in 1..n
          <5>1. i \in DOMAIN queue[x][v] /\ queue'[x][v][i] = queue[x][v][i]
            BY <1>10, <4>1, <4>3
          <5> QED
            BY <2>2, <2>3, <5>1
        <4>4. CASE i = n + 1
          <5>1. queue'[x][v][i].job = job
            <6>1. queue'[x][v][i] = t[1]
              BY <1>10, <4>1, <4>4, Zenon
            <6>2. t[1].job = job
              BY <1>7
            <6> QED
              BY <6>1, <6>2
          <5> QED
            BY <1>4, <1>5, <5>1
        <4>5. CASE i = n + 2
          <5>1. queue'[x][v][i].op = "post"
            BY <1>7, <1>10, <4>1, <4>5
          <5> QED
            BY <2>3, <5>1
        <4> QED
          BY <4>2, <4>3, <4>4, <4>5
      <3>2. CASE x # ph \/ v # u
        BY <1>9, <2>2, <2>3, <3>2
      <3> QED
        BY <3>1, <3>2
    <2> QED
      BY <2>1, <2>3 DEF NumbersKept
  <1>13. \A x \in Posts : \A i \in older[x] : i \in Posts /\ draft'[i] = draft[i]
    BY <1>11 DEF NumInv, OlderWritten, TypeOK
  <1>14. OlderWritten'
    BY <1>1, <1>13 DEF NumInv, OlderWritten
  <1>15. \A x \in Posts : AboveOlder(x) => AboveOlder(x)'
    BY <1>1, <1>5, <1>13 DEF AboveOlder
  <1>16. \A x \in Phones : \A j \in SeenJobs(x) : j \in SeenJobs(x)'
    <2> TAKE x \in Phones
    <2>1. ASSUME NEW v \in Users, NEW i \in DOMAIN queue[x][v]
          PROVE  i \in DOMAIN queue'[x][v] /\ queue'[x][v][i] = queue[x][v][i]
      <3>1. CASE x = ph /\ v = u
        <4>1. i \in 1..n /\ queue[x][v] = q /\ queue'[x][v] = q \o t
          BY <1>7, <1>9, <1>10, <3>1
        <4>2. i \in 1..(n + 2)
          BY <4>1
        <4> QED
          BY <1>10, <4>1, <4>2
      <3>2. CASE x # ph \/ v # u
        BY <1>9, <3>2
      <3> QED
        BY <3>1, <3>2
    <2>2. CASE account[x] = NoUser
      BY <1>1, <2>2 DEF SeenJobs
    <2>3. CASE account[x] # NoUser
      <3>1. PICK v \in Users : v = account[x] /\ v = account'[x]
        BY <1>1, <2>3 DEF TypeOK
      <3> QED
        BY <1>1, <2>1, <2>3, <3>1 DEF SeenJobs
    <2> QED
      BY <2>2, <2>3
  <1>17. ASSUME NEW x \in Posts, SeesOlder(x), draft[x].stage = "numbering"
         PROVE  SeesOlder(x)'
    <2>1. PICK y \in Phones : y = draft[x].phone /\ y = draft'[x].phone
      BY <1>1, <1>5, <1>17, Started
    <2> QED
      BY <1>1, <1>16, <1>17, <2>1, StillSeen
  <1>18. HasAccount(p)
    BY DEF WriteJob, HasAccount
  <1>19. NumbersGrow'
    BY <1>1, <1>5, <1>15, <1>17, <1>18 DEF NumInv, NumbersGrow, HasAccount
  <1> QED
    BY <1>12, <1>14, <1>19 DEF NumInv

(* A new post notes what its phone sees.                                   *)
LEMMA PostNumbers ==
    ASSUME TypeOK, BoardInv, NumInv,
           NEW ph \in Phones, NEW p \in Posts, NEW pics \in SUBSET Pictures, Post(ph, p, pics)
    PROVE  NumInv'
  <1>1. /\ draft[p].stage = "blank"
        /\ draft'[p].stage = "numbering" /\ draft'[p].phone = ph
        /\ \A x \in Posts : x # p => draft'[x] = draft[x]
        /\ UNCHANGED <<jobs, queue, account, switches>>
    BY DEF Post, TypeOK, Blank
  <1>2. /\ older'[p] = {j.id : j \in SeenJobs(ph)}
        /\ \A x \in Posts : x # p => older'[x] = older[x]
    BY DEF Post, TypeOK
  <1>3. NumbersKept'
    BY <1>1, StillNumbers DEF NumInv
  <1>4. \A i \in older'[p] : i \in Posts /\ draft[i].stage = "written" /\ draft'[i] = draft[i]
    <2>1. \A j \in SeenJobs(ph) : j.id \in Posts /\ draft[j.id].stage = "written"
      BY SeenNumbers DEF NumInv, JobDoc
    <2> QED
      BY <1>1, <1>2, <2>1
  <1>5. \A x \in Posts : \A i \in older[x] :
           i \in Posts /\ draft[i].stage = "written" /\ draft'[i] = draft[i]
    BY <1>1 DEF NumInv, OlderWritten, TypeOK
  <1>6. OlderWritten'
    <2> SUFFICES ASSUME NEW x \in Posts, NEW i \in older'[x]
                 PROVE  draft'[i].stage = "written"
      BY DEF OlderWritten
    <2>1. CASE x = p
      BY <1>4, <2>1
    <2>2. CASE x # p
      BY <1>2, <1>5, <2>2
    <2> QED
      BY <2>1, <2>2
  <1>7. SeesOlder(p)'
    <2>1. SeenJobs(draft[p].phone)' = SeenJobs(ph)
      BY <1>1 DEF SeenJobs
    <2> QED
      BY <1>1, <1>2, <2>1 DEF SeesOlder
  <1>8. \A x \in Posts : x # p /\ AboveOlder(x) => AboveOlder(x)'
    BY <1>1, <1>2, <1>5 DEF AboveOlder
  <1>9. ASSUME NEW x \in Posts, x # p, SeesOlder(x), draft[x].stage = "numbering"
        PROVE  SeesOlder(x)'
    <2>1. PICK y \in Phones : y = draft[x].phone /\ y = draft'[x].phone
      BY <1>1, <1>9, Started
    <2> QED
      BY <1>1, <1>2, <1>9, <2>1, SameSeen, StillSeen
  <1>10. NumbersGrow'
    BY <1>1, <1>7, <1>8, <1>9 DEF NumInv, NumbersGrow, HasAccount
  <1> QED
    BY <1>3, <1>6, <1>10 DEF NumInv

(* The oldest write leaves its queue: a job for the server, or an entry.   *)
LEMMA SentNumbers ==
    ASSUME TypeOK, BoardInv, NumInv, NEW ph \in Phones, Sending(ph), Sent(ph),
           UNCHANGED <<draft, account, switches, older>>,
           NEW w \in Write, w = Head(queue[ph][account[ph]]),
           jobs' = IF w.op = "job" THEN jobs \cup {w.job} ELSE jobs
    PROVE  NumInv'
  <1>1. PICK u \in Users : u = account[ph]
    BY SentQueue
  <1>2. PICK q \in Seq(Write) : q = queue[ph][u]
    BY <1>1 DEF TypeOK
  <1>3. /\ q # << >> /\ w = q[1] /\ queue'[ph][u] = Tail(q)
        /\ \A x \in Phones, v \in Users : x # ph \/ v # u => queue'[x][v] = queue[x][v]
    BY <1>1, <1>2, SentQueue
  <1>4. /\ 1 \in DOMAIN q
        /\ \A i \in DOMAIN Tail(q) : i + 1 \in DOMAIN q /\ Tail(q)[i] = q[i + 1]
        /\ \A i \in DOMAIN q : i # 1 => i - 1 \in DOMAIN Tail(q) /\ Tail(q)[i - 1] = q[i]
    BY <1>3, Popped
  <1>5. NumbersKept'
    <2>1. w.op = "job" => w.job.num = draft[w.job.id].num
      BY <1>2, <1>3, <1>4 DEF NumInv, NumbersKept
    <2>2. \A j \in jobs' : j.num = draft[j.id].num
      BY <2>1 DEF NumInv, NumbersKept
    <2>3. ASSUME NEW x \in Phones, NEW v \in Users, NEW i \in DOMAIN queue'[x][v],
                 queue'[x][v][i].op = "job"
          PROVE  queue'[x][v][i].job.num = draft[queue'[x][v][i].job.id].num
      <3>1. PICK k \in DOMAIN queue[x][v] : queue'[x][v][i] = queue[x][v][k]
        <4>1. CASE x = ph /\ v = u
          <5>1. queue'[x][v] = Tail(q) /\ queue[x][v] = q
            BY <1>2, <1>3, <4>1
          <5>2. i + 1 \in DOMAIN q /\ Tail(q)[i] = q[i + 1]
            BY <1>4, <5>1
          <5> QED
            BY <5>1, <5>2
        <4>2. CASE x # ph \/ v # u
          BY <1>3, <4>2
        <4> QED
          BY <4>1, <4>2
      <3> QED
        BY <2>3, <3>1 DEF NumInv, NumbersKept
    <2> QED
      BY <2>2, <2>3 DEF NumbersKept
  <1>6. \A x \in Phones : \A j \in SeenJobs(x) : j \in SeenJobs(x)'
    <2> TAKE x \in Phones
    <2> TAKE j \in SeenJobs(x)
    <2>1. CASE j \in jobs
      BY <2>1 DEF SeenJobs
    <2>2. CASE j \notin jobs
      <3>1. PICK v \in Users : v = account[x] /\ v # NoUser
        BY <2>2 DEF SeenJobs, TypeOK
      <3>2. PICK i \in DOMAIN queue[x][v] : queue[x][v][i].op = "job" /\ j = queue[x][v][i].job
        BY <2>2, <3>1 DEF SeenJobs
      <3>3. CASE x = ph /\ v = u /\ i = 1
        BY <1>2, <1>3, <3>2, <3>3 DEF SeenJobs
      <3>4. CASE ~(x = ph /\ v = u /\ i = 1)
        <4>1. PICK k \in DOMAIN queue'[x][v] : queue'[x][v][k] = queue[x][v][i]
          <5>1. CASE x = ph /\ v = u
            <6>1. queue'[x][v] = Tail(q) /\ queue[x][v] = q /\ i # 1
              BY <1>2, <1>3, <3>4, <5>1
            <6>2. i - 1 \in DOMAIN Tail(q) /\ Tail(q)[i - 1] = q[i]
              BY <1>4, <3>2, <6>1
            <6> QED
              BY <6>1, <6>2
          <5>2. CASE x # ph \/ v # u
            BY <1>3, <3>2, <5>2
          <5> QED
            BY <5>1, <5>2
        <4> QED
          BY <3>1, <3>2, <4>1 DEF SeenJobs
      <3> QED
        BY <3>3, <3>4
    <2> QED
      BY <2>1, <2>2
  <1> QED
    BY <1>5, <1>6, NumbersStay

(* A crash takes the posts that wait for a number along.                   *)
LEMMA CrashNumbers ==
    ASSUME TypeOK, BoardInv, NumInv, NEW ph \in Phones, Crash(ph)
    PROVE  NumInv'
  <1>1. /\ \A x \in Posts : draft[x].stage = "written" => draft'[x] = draft[x]
        /\ \A x \in Posts : draft'[x] = draft[x] \/ draft'[x].stage = "lost"
        /\ \A x \in Posts : draft[x].phone = ph => draft'[x].stage # "numbering"
    BY Started DEF Crash, LoseDrafts, InMemory
  <1>2. UNCHANGED <<jobs, account, switches, older>>
    BY DEF Crash
  <1>3. \A x \in Phones, u \in Users :
           /\ DOMAIN queue'[x][u] \subseteq DOMAIN queue[x][u]
           /\ \A i \in DOMAIN queue'[x][u] : queue'[x][u][i] = queue[x][u][i]
    BY CrashQueue
  <1>4. NumbersKept'
    <2>1. \A j \in jobs' : j.num = draft'[j.id].num
      BY <1>1, <1>2 DEF NumInv, NumbersKept, BoardInv, IsWritten, TypeOK, JobDoc
    <2>2. ASSUME NEW x \in Phones, NEW v \in Users, NEW i \in DOMAIN queue'[x][v],
                 queue'[x][v][i].op = "job"
          PROVE  queue'[x][v][i].job.num = draft'[queue'[x][v][i].job.id].num
      <3>1. i \in DOMAIN queue[x][v] /\ queue'[x][v][i] = queue[x][v][i]
        BY <1>3
      <3>2. PICK w \in Write : w = queue[x][v][i]
        BY <3>1 DEF TypeOK
      <3>3. w.job \in JobDoc /\ IsWritten(w.job)
        BY <2>2, <3>1, <3>2, WriteKinds DEF BoardInv, Ready
      <3>4. draft'[w.job.id] = draft[w.job.id]
        BY <1>1, <3>3 DEF IsWritten, JobDoc
      <3> QED
        BY <2>2, <3>1, <3>2, <3>4 DEF NumInv, NumbersKept
    <2> QED
      BY <2>1, <2>2 DEF NumbersKept
  <1>5. \A x \in Phones : x # ph => \A j \in SeenJobs(x) : j \in SeenJobs(x)'
    BY <1>2 DEF SeenJobs, Crash, TypeOK
  <1> QED
    BY <1>1, <1>2, <1>4, <1>5, NumbersStay

LEMMA NextNumbered ==
    TypeOK /\ BoardInv /\ NumInv /\ ConstantsAssumption /\ JobsAccepted /\ [Next]_vars
        => NumInv'
  <1> SUFFICES ASSUME TypeOK, BoardInv, NumInv, ConstantsAssumption, JobsAccepted,
                      [Next]_vars
               PROVE  NumInv'
    OBVIOUS
  <1>0. ASSUME UNCHANGED <<jobs, queue, older, draft>>, switches' = 0 => switches = 0,
               switches' = 0 => \A ph \in Phones :
                  account'[ph] # NoUser => account'[ph] = account[ph]
        PROVE  NumInv'
    <2>1. NumbersKept'
      BY <1>0, StillNumbers DEF NumInv
    <2>2. switches' = 0 => \A ph \in Phones : account'[ph] # NoUser =>
            account[ph] # NoUser /\ \A j \in SeenJobs(ph) : j \in SeenJobs(ph)'
      BY <1>0 DEF SeenJobs
    <2> QED
      BY <1>0, <2>1, <2>2, NumbersStay
  <1>1. ASSUME NEW p \in Posts, Continue(p) PROVE NumInv'
    <2>1. ASSUME UNCHANGED <<jobs, queue, account, switches, older>>,
                 \A x \in Posts : draft[x].stage = "written" => draft'[x] = draft[x],
                 \A x \in Posts :
                    \/ draft'[x].stage \in {"blank", "lost"}
                    \/ /\ draft'[x].stage = draft[x].stage
                       /\ draft'[x].phone = draft[x].phone
                       /\ draft'[x].num = draft[x].num
          PROVE  NumInv'
      <3>1. NumbersKept'
        BY <2>1, StillNumbers DEF NumInv
      <3>2. \A ph \in Phones : \A j \in SeenJobs(ph) : j \in SeenJobs(ph)'
        BY <2>1 DEF SeenJobs
      <3> QED
        BY <2>1, <3>1, <3>2, NumbersStay
    <2>2. CASE NumberError(p)
      BY <2>1, <2>2, Started DEF NumberError, TypeOK
    <2>3. ASSUME NEW pic \in Pictures, Upload(p, pic) PROVE NumInv'
      BY <2>1, <2>3, Started DEF Upload, Uploading, TypeOK
    <2>4. ASSUME NEW pic \in Pictures, UploadError(p, pic) PROVE NumInv'
      BY <2>1, <2>4, Started DEF UploadError, Uploading, TypeOK
    <2>5. ASSUME NEW pic \in Pictures, DieWithoutUser(p, pic) PROVE NumInv'
      BY <2>1, <2>5, Started DEF DieWithoutUser, LoseDrafts, InMemory
    <2> QED
      BY <1>1, <2>2, <2>3, <2>4, <2>5, FindNumberNumbers, WriteJobNumbers DEF Continue
  <1>2. ASSUME NEW ph \in Phones, NEW p \in Posts, NEW pics \in SUBSET Pictures,
               Post(ph, p, pics)
        PROVE  NumInv'
    BY <1>2, PostNumbers
  <1>3. ASSUME NEW ph \in Phones, SignOut(ph) PROVE NumInv'
    BY <1>0, <1>3 DEF SignOut, TypeOK
  <1>4. ASSUME NEW ph \in Phones, NEW u \in Users, SignIn(ph, u) PROVE NumInv'
    <2>1. switches' # 0
      BY <1>4, ConstantsAssumption DEF SignIn, TypeOK, ConstantsAssumption
    <2> QED
      BY <1>0, <1>4, <2>1 DEF SignIn
  <1>5. ASSUME NEW ph \in Phones, Acknowledge(ph) PROVE NumInv'
    BY <1>5, SentNumbers, SentQueue DEF Acknowledge
  <1>6. ASSUME NEW ph \in Phones, Refuse(ph) PROVE NumInv'
    <2>1. Head(queue[ph][account[ph]]).op # "job"
      BY <1>6 DEF Refuse, JobsAccepted
    <2> QED
      BY <1>6, <2>1, SentNumbers, SentQueue DEF Refuse
  <1>7. ASSUME NEW ph \in Phones, Crash(ph) PROVE NumInv'
    BY <1>7, CrashNumbers
  <1>8. CASE UNCHANGED vars
    BY <1>0, <1>8 DEF vars
  <1> QED
    BY <1>1, <1>2, <1>3, <1>4, <1>5, <1>6, <1>7, <1>8 DEF Next

(* While nobody signs in anew, a post's number is above that of every job  *)
(* its phone could see when the button was tapped, unless a job document is*)
(* refused (PostAdTableViewController:203-212).                            *)
THEOREM NumbersIncrease == JobsAccepted /\ Spec => []LaterJobHasLargerNumber
  <1> DEFINE Inv == TypeOK /\ BoardInv /\ NumInv
  <1>1. Init => Inv
    BY InitType, InitBoard, InitNumbers, ConstantsAssumption
  <1>2. JobsAccepted /\ Inv /\ [Next]_vars => Inv'
    BY NextType, NextBoard, NextNumbered, ConstantsAssumption
  <1>3. Inv => LaterJobHasLargerNumber
    <2> SUFFICES ASSUME Inv, switches = 0, NEW j \in jobs, NEW i \in older[j.id]
                 PROVE  draft[i].num < j.num
      BY DEF LaterJobHasLargerNumber
    <2>1. j.id \in Posts /\ draft[j.id].stage = "written" /\ j.num = draft[j.id].num
      BY DEF TypeOK, JobDoc, BoardInv, IsWritten, NumInv, NumbersKept
    <2> QED
      BY <2>1 DEF NumInv, NumbersGrow, AboveOlder
  <1>4. JobsAccepted => JobsAccepted'
    BY DEF JobsAccepted
  <1> HIDE DEF Inv
  <1> QED
    BY <1>1, <1>2, <1>3, <1>4, PTL DEF Spec

-----------------------------------------------------------------------------
(* Posting implements the job board.                                       *)

(* What the board sees of the state.                                       *)
Asked == {[id |-> p, pictures |-> draft[p].pictures] :
            p \in {x \in Posts : draft[x].stage # "blank"}}
OnBoard == {[id |-> j.id, pictures |-> j.pictures, poster |-> j.poster] : j \in jobs}

(* A step that starts no post and reaches no document is a stutter.        *)
LEMMA Unseen ==
    ASSUME TypeOK,
           \A p \in Posts : /\ (draft'[p].stage = "blank") <=> (draft[p].stage = "blank")
                            /\ draft'[p].pictures = draft[p].pictures,
           UNCHANGED <<jobs, posts>>
    PROVE  UNCHANGED <<Asked, OnBoard, posts>>
  <1>1. \A p \in Posts :
          /\ (draft'[p].stage = "blank") <=> (draft[p].stage = "blank")
          /\ draft'[p].pictures = draft[p].pictures
    OBVIOUS
  <1>2. Asked' = Asked
    BY <1>1 DEF Asked
  <1>3. OnBoard' = OnBoard
    BY DEF OnBoard
  <1> QED
    BY <1>2, <1>3

(* The Post button asks for a job whose id nobody asked for before.        *)
LEMMA PostAsks ==
    ASSUME TypeOK, NEW ph \in Phones, NEW p \in Posts, NEW pics \in SUBSET Pictures,
           Post(ph, p, pics)
    PROVE  /\ \A s \in Asked : s.id # p
           /\ Asked' = Asked \cup {[id |-> p, pictures |-> pics]}
           /\ UNCHANGED <<OnBoard, posts>>
  <1>1. \A s \in Asked : s.id # p
    BY DEF Asked, Post
  <1>2. /\ draft'[p].stage = "numbering" /\ draft'[p].pictures = pics
        /\ \A x \in Posts : x # p => draft'[x] = draft[x]
    BY DEF Post, Blank, TypeOK
  <1>3. Asked' = Asked \cup {[id |-> p, pictures |-> pics]}
    <2>1. ASSUME NEW s \in Asked' PROVE s \in Asked \cup {[id |-> p, pictures |-> pics]}
      <3>1. PICK x \in Posts : /\ draft'[x].stage # "blank"
                               /\ s = [id |-> x, pictures |-> draft'[x].pictures]
        BY <2>1 DEF Asked
      <3> QED
        BY <1>2, <3>1 DEF Asked
    <2>2. ASSUME NEW s \in Asked PROVE s \in Asked'
      <3>1. PICK x \in Posts : /\ draft[x].stage # "blank"
                               /\ s = [id |-> x, pictures |-> draft[x].pictures]
        BY <2>2 DEF Asked
      <3>2. draft'[x] = draft[x]
        BY <1>2, <3>1 DEF Post
      <3> QED
        BY <3>1, <3>2 DEF Asked
    <2>3. [id |-> p, pictures |-> pics] \in Asked'
      BY <1>2 DEF Asked
    <2> QED
      BY <2>1, <2>2, <2>3
  <1>4. OnBoard' = OnBoard /\ posts' = posts
    BY DEF OnBoard, Post
  <1> QED
    BY <1>1, <1>3, <1>4

(* An acknowledged job is one that was asked for, and appears once; an     *)
(* acknowledged entry names a job that is there.                           *)
LEMMA AcknowledgeShows ==
    ASSUME TypeOK, BoardInv, NEW ph \in Phones, Acknowledge(ph)
    PROVE  \/ \E j \in Board!Job : Board!Publish(j)
           \/ \E e \in Board!Entry : Board!List(e)
  <1>0. Sending(ph) /\ Sent(ph)
    BY DEF Acknowledge
  <1>1. PICK u \in Users : u = account[ph]
    BY <1>0, SentQueue
  <1>2. PICK w \in Write : w = Head(queue[ph][u]) /\ w = queue[ph][u][1]
    BY <1>0, <1>1, SentQueue
  <1>3. 1 \in DOMAIN queue[ph][u]
    BY <1>0, <1>1, SentQueue
  <1>4. Ready(ph, u, 1)
    BY <1>3 DEF BoardInv
  <1>5. /\ jobs' = IF w.op = "job" THEN jobs \cup {w.job} ELSE jobs
        /\ posts' = IF w.op = "post" THEN posts \cup {w.post} ELSE posts
        /\ draft' = draft
    BY <1>1, <1>2 DEF Acknowledge
  <1>6. Asked' = Asked
    BY <1>5 DEF Asked
  <1>7. CASE w.op = "job"
    <2> DEFINE j == [id |-> w.job.id, pictures |-> w.job.pictures, poster |-> w.job.poster]
    <2>1. w.job \in JobDoc /\ IsWritten(w.job) /\ \A k \in jobs : k.id # w.job.id
      BY <1>2, <1>4, <1>7, WriteKinds DEF Ready
    <2>2. j \in Board!Job
      BY <2>1 DEF Board!Job, JobDoc
    <2>3. [id |-> j.id, pictures |-> j.pictures] \in Asked
      BY <2>1 DEF Asked, IsWritten, JobDoc
    <2>4. \A k \in OnBoard : k.id # j.id
      BY <2>1 DEF OnBoard
    <2>5. OnBoard' = OnBoard \cup {j}
      BY <1>5, <1>7 DEF OnBoard
    <2>6. posts' = posts
      BY <1>5, <1>7
    <2> HIDE DEF j
    <2>7. Board!Publish(j)
      BY <1>6, <2>3, <2>4, <2>5, <2>6 DEF Board!Publish, Asked, OnBoard
    <2> QED
      BY <2>2, <2>7
  <1>8. CASE w.op = "post"
    <2>1. w.post \in PostDoc
      BY <1>8, WriteKinds
    <2>2. \E j \in jobs : Names(j, w.post)
      BY <1>2, <1>4, <1>8 DEF Ready
    <2>3. w.post \in Board!Entry
      BY <2>1 DEF Board!Entry, PostDoc
    <2>4. \E j \in OnBoard : j.id = w.post.id /\ j.poster = w.post.poster
      <3>1. PICK j \in jobs : Names(j, w.post)
        BY <2>2
      <3>2. [id |-> j.id, pictures |-> j.pictures, poster |-> j.poster] \in OnBoard
        BY DEF OnBoard
      <3> QED
        BY <3>1, <3>2 DEF Names
    <2>5. posts' = posts \cup {w.post} /\ jobs' = jobs
      BY <1>5, <1>8
    <2>6. OnBoard' = OnBoard
      BY <2>5 DEF OnBoard
    <2>7. Board!List(w.post)
      BY <1>6, <2>4, <2>5, <2>6 DEF Board!List, Asked, OnBoard
    <2> QED
      BY <2>3, <2>7
  <1> QED
    BY <1>7, <1>8, WriteKinds

LEMMA StepOfTheBoard ==
    ASSUME ConstantsAssumption, TypeOK, BoardInv, [Next]_vars
    PROVE  [Board!Next]_(Board!vars)
  <1>0. ASSUME UNCHANGED <<Asked, OnBoard, posts>> PROVE [Board!Next]_(Board!vars)
    BY <1>0 DEF Board!vars, Asked, OnBoard
  <1>1. ASSUME NEW p \in Posts, Continue(p) PROVE [Board!Next]_(Board!vars)
    <2> DEFINE Kept(x) == /\ (draft'[x].stage = "blank") <=> (draft[x].stage = "blank")
                          /\ draft'[x].pictures = draft[x].pictures
    <2>1. ASSUME NEW x \in Posts PROVE Kept(x)
      <3>1. CASE FindNumber(p)
        <4>1. PICK n \in NextNumbers(SeenJobs(draft[p].phone)) :
                draft' = [draft EXCEPT ![p].stage = "uploading", ![p].num = n]
          BY <3>1 DEF FindNumber
        <4>2. draft[p].stage = "numbering"
          BY <3>1 DEF FindNumber
        <4> QED
          BY <4>1, <4>2, Started DEF TypeOK
      <3>2. CASE NumberError(p)
        BY <3>2, Started DEF NumberError, TypeOK
      <3>3. ASSUME NEW pic \in Pictures, Upload(p, pic) PROVE Kept(x)
        BY <3>3, Started DEF Upload, Uploading, TypeOK
      <3>4. ASSUME NEW pic \in Pictures, UploadError(p, pic) PROVE Kept(x)
        BY <3>4, Started DEF UploadError, Uploading, TypeOK
      <3>5. ASSUME NEW pic \in Pictures, WriteJob(p, pic) PROVE Kept(x)
        BY <3>5, Started DEF WriteJob, Uploading, TypeOK
      <3>6. ASSUME NEW pic \in Pictures, DieWithoutUser(p, pic) PROVE Kept(x)
        BY <3>6, Started DEF DieWithoutUser, LoseDrafts, InMemory
      <3> QED
        BY <1>1, <3>1, <3>2, <3>3, <3>4, <3>5, <3>6 DEF Continue
    <2>2. UNCHANGED <<jobs, posts>>
      BY <1>1 DEF Continue, FindNumber, NumberError, Upload, UploadError, WriteJob,
                  DieWithoutUser
    <2> QED
      BY <1>0, <2>1, <2>2, Unseen
  <1>2. ASSUME NEW ph \in Phones, NEW p \in Posts, NEW pics \in SUBSET Pictures,
               Post(ph, p, pics)
        PROVE  [Board!Next]_(Board!vars)
    <2> DEFINE r == [id |-> p, pictures |-> pics]
    <2>1. r \in Board!Request
      BY DEF Board!Request
    <2>2. Board!Ask(r)
      BY <1>2, PostAsks DEF Board!Ask, Asked, OnBoard
    <2> QED
      BY <2>1, <2>2 DEF Board!Next
  <1>3. ASSUME NEW ph \in Phones, SignOut(ph) \/ \E u \in Users : SignIn(ph, u)
        PROVE  [Board!Next]_(Board!vars)
    BY <1>0, <1>3, Unseen DEF SignOut, SignIn
  <1>4. ASSUME NEW ph \in Phones, Acknowledge(ph) PROVE [Board!Next]_(Board!vars)
    BY <1>4, AcknowledgeShows DEF Board!Next
  <1>5. ASSUME NEW ph \in Phones, Refuse(ph) PROVE [Board!Next]_(Board!vars)
    BY <1>0, <1>5, Unseen DEF Refuse
  <1>6. ASSUME NEW ph \in Phones, Crash(ph) PROVE [Board!Next]_(Board!vars)
    BY <1>0, <1>6, Unseen, Started DEF Crash, LoseDrafts, InMemory
  <1>7. CASE UNCHANGED vars
    BY <1>0, <1>7, Unseen DEF vars
  <1> QED
    BY <1>1, <1>2, <1>3, <1>4, <1>5, <1>6, <1>7 DEF Next

(* Posting implements the job board when no job document is refused: a job *)
(* appears once and whole, and is listed only after it appeared            *)
(* (StorageHelper:80-118, DatabaseHelper:50-72).                           *)
THEOREM ImplementsTheBoard == JobsAccepted /\ Spec => ImplementsBoard
  <1>1. Init => Board!Init
    BY DEF Init, Board!Init, Blank
  <1>2. TypeOK /\ BoardInv /\ [Next]_vars => [Board!Next]_(Board!vars)
    BY StepOfTheBoard, ConstantsAssumption
  <1> QED
    BY AlwaysOrdered, <1>1, <1>2, PTL DEF Spec, ImplementsBoard, Board!Spec
=============================================================================
