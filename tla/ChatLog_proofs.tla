---------------------------- MODULE ChatLog_proofs ----------------------------
(***************************************************************************)
(* For any parties, clocks and bounds, whether or not the server refuses   *)
(* messages: the types, and the order of the rows.  ChatInv is the         *)
(* inductive invariant: the messages of one sender are on the server,      *)
(* queued and asked for in the order they were sent; what a phone has of   *)
(* the others' is the beginning of what is stored; and whoever has a reply *)
(* has what it answers, unless that is lost.                               *)
(***************************************************************************)
EXTENDS ChatLog, SequenceTheorems, FiniteSetTheorems, TLAPS

-----------------------------------------------------------------------------
(* The inductive invariant.                                                *)

Sent == 1..Len(sender)
Asked(u) == Elements(tasks[u]) \ {Listen}
Queued(u) == Elements(queue[u])
Heard(u) == Elements(heard[u])

(* What somebody may yet hear of, and what nobody will.                    *)
Live == stored \cup UNION {Queued(v) \cup Asked(v) : v \in Users}
Gone(n) == n \notin Live

(* What is where was sent, and bids are stored from the start.             *)
AllSent ==
    /\ 1..Bids \subseteq stored /\ stored \subseteq Sent
    /\ \A u \in Users :
         /\ known[u] \subseteq stored
         /\ Heard(u) \subseteq Sent
         /\ \A m \in Queued(u) \cup Asked(u) : m \in Sent /\ m > Bids /\ sender[m] = u
    /\ \A m \in Sent : saw[m] \subseteq 1..(m - 1)

Grows(s) == \A i, k \in DOMAIN s : i < k => s[i] < s[k]

InTurn(s) ==
    \A i, k \in DOMAIN s : i < k =>
        s[i] # s[k] /\ (Listen \notin {s[i], s[k]} => s[i] < s[k])

(* From the server to the queue to the tasks, a sender's messages grow.    *)
InLine ==
    \A u \in Users :
        /\ Grows(queue[u])
        /\ InTurn(tasks[u])
        /\ \A m \in Queued(u), n \in Asked(u) : m < n
        /\ \A m \in stored, n \in Queued(u) \cup Asked(u) : sender[m] = u => m < n
        /\ \A m \in Heard(u), n \in Asked(u) : sender[m] = u => m < n

(* What a phone has of another's messages is the beginning of them; of its *)
(* own it misses only old ones.                                            *)
KnownIsPrefix ==
    \A u \in Users : \A n \in stored \ known[u] :
        /\ sender[n] = u => n <= Bids
        /\ \A m \in known[u] : sender[m] = sender[n] /\ sender[m] # u => m < n

(* A listener has told of all there is, and besides of what a phone sent   *)
(* and the server refused.                                                 *)
Lost(u, m) == sender[m] = u /\ Gone(m)

ListenersTell ==
    \A u \in Users :
        /\ u \notin open => Listen \notin Elements(tasks[u])
        /\ ~Listening(u) => heard[u] = << >>
        /\ Listening(u) => Local(u) \subseteq Heard(u)
        /\ \A m \in Heard(u) : m \in Local(u) \/ Lost(u, m)

(* Replies come with what they answer.                                     *)
Closed(S, T) == \A m \in S : \A n \in saw[m] : n \in T \/ Gone(n)

RepliesClosed ==
    /\ Closed(stored, stored)
    /\ \A u \in Users :
         /\ Closed(Local(u) \cup Asked(u), Local(u))
         /\ Closed(Heard(u), Heard(u))

(* The rows of one log.                                                    *)
LogInOrder(u, h) ==
    \A i, k \in DOMAIN h : i < k =>
        /\ h[i] # h[k]
        /\ sender[h[i]] = sender[h[k]] => h[i] < h[k] \/ (sender[h[k]] = u /\ h[k] <= Bids)
        /\ h[k] \in saw[h[i]] => Before(h[i], h[k])

LogsInOrder == \A u \in Users : LogInOrder(u, heard[u])

ChatInv ==
    /\ TypeOK
    /\ AllSent
    /\ InLine
    /\ KnownIsPrefix
    /\ ListenersTell
    /\ RepliesClosed
    /\ LogsInOrder

-----------------------------------------------------------------------------
(* Sequences and their elements.                                           *)

LEMMA Elements1 ==
    ASSUME NEW T, NEW s \in Seq(T)
    PROVE  /\ DOMAIN s = 1..Len(s) /\ Len(s) \in Nat
           /\ Elements(s) \subseteq T
           /\ \A i \in DOMAIN s : s[i] \in Elements(s)
           /\ \A e \in Elements(s) : \E i \in DOMAIN s : s[i] = e
  BY DEF Elements

LEMMA NoElements == Elements(<< >>) = {}
  BY DEF Elements

LEMMA HeadTail ==
    ASSUME NEW T, NEW s \in Seq(T), s # << >>
    PROVE  /\ Head(s) = s[1] /\ Head(s) \in T /\ Tail(s) \in Seq(T)
           /\ 1 \in DOMAIN s
           /\ \A i \in DOMAIN Tail(s) :
                 i + 1 \in DOMAIN s /\ Tail(s)[i] = s[i + 1] /\ i \in Nat /\ i >= 1
           /\ Elements(s) = {Head(s)} \cup Elements(Tail(s))
           /\ Elements(Tail(s)) \subseteq Elements(s)
  <1>1. PICK n \in Nat : n = Len(s) /\ n >= 1 /\ DOMAIN s = 1..n
    <2>1. Len(s) \in Nat /\ DOMAIN s = 1..Len(s) /\ Len(s) # 0
      BY EmptySeq
    <2>2. Len(s) >= 1
      BY <2>1
    <2> QED
      BY <2>1, <2>2
  <1>2. /\ Head(s) = s[1] /\ s[1] \in T
        /\ Tail(s) \in Seq(T)
        /\ DOMAIN Tail(s) = 1..(n - 1)
        /\ \A i \in 1..(n - 1) : Tail(s)[i] = s[i + 1]
    BY <1>1
  <1>3. Elements(s) \subseteq {Head(s)} \cup Elements(Tail(s))
    <2> SUFFICES ASSUME NEW i \in 1..n, i # 1
                 PROVE  s[i] \in Elements(Tail(s))
      BY <1>1, <1>2 DEF Elements
    <2>1. i - 1 \in 1..(n - 1) /\ Tail(s)[i - 1] = s[i]
      BY <1>2
    <2> QED
      BY <1>2, <2>1 DEF Elements
  <1>4. Elements(Tail(s)) \subseteq Elements(s) /\ Head(s) \in Elements(s)
    BY <1>1, <1>2 DEF Elements
  <1> QED
    BY <1>1, <1>2, <1>3, <1>4

LEMMA Concat ==
    ASSUME NEW T, NEW s \in Seq(T), NEW t \in Seq(T)
    PROVE  /\ s \o t \in Seq(T)
           /\ Len(s \o t) = Len(s) + Len(t)
           /\ Elements(s \o t) = Elements(s) \cup Elements(t)
           /\ \A i, k \in DOMAIN (s \o t) : i < k =>
                 \/ i \in DOMAIN s /\ k \in DOMAIN s /\ (s \o t)[i] = s[i] /\ (s \o t)[k] = s[k]
                 \/ (s \o t)[i] \in Elements(s) /\ (s \o t)[k] \in Elements(t)
                 \/ \E j, l \in DOMAIN t : j < l /\ (s \o t)[i] = t[j] /\ (s \o t)[k] = t[l]
  <1>0. PICK c : c = s \o t
    OBVIOUS
  <1>1. PICK n \in Nat, m \in Nat : n = Len(s) /\ m = Len(t) /\ DOMAIN s = 1..n /\ DOMAIN t = 1..m
    OBVIOUS
  <1>2. /\ c \in Seq(T) /\ Len(c) = n + m /\ DOMAIN c = 1..(n + m)
        /\ \A i \in 1..n : c[i] = s[i]
        /\ \A i \in (n + 1)..(n + m) : c[i] = t[i - n]
    BY <1>0, <1>1
  <1>3. \A i \in 1..(n + m) : i \in 1..n \/ (i \in (n + 1)..(n + m) /\ i - n \in 1..m)
    OBVIOUS
  <1>4. Elements(c) \subseteq Elements(s) \cup Elements(t)
    <2> SUFFICES ASSUME NEW i \in 1..(n + m)
                 PROVE  c[i] \in Elements(s) \cup Elements(t)
      BY <1>2 DEF Elements
    <2> QED
      BY <1>1, <1>2, <1>3 DEF Elements
  <1>5. Elements(s) \subseteq Elements(c)
    BY <1>1, <1>2 DEF Elements
  <1>6. Elements(t) \subseteq Elements(c)
    <2> SUFFICES ASSUME NEW i \in 1..m
                 PROVE  t[i] \in Elements(c)
      BY <1>1 DEF Elements
    <2>1. n + i \in (n + 1)..(n + m) /\ (n + i) - n = i /\ n + i \in 1..(n + m)
      OBVIOUS
    <2> QED
      BY <1>2, <2>1 DEF Elements
  <1>7. ASSUME NEW i \in 1..(n + m), NEW k \in 1..(n + m), i < k
        PROVE  \/ i \in DOMAIN s /\ k \in DOMAIN s /\ c[i] = s[i] /\ c[k] = s[k]
               \/ c[i] \in Elements(s) /\ c[k] \in Elements(t)
               \/ \E j, l \in DOMAIN t : j < l /\ c[i] = t[j] /\ c[k] = t[l]
    <2>1. CASE k \in 1..n
      BY <1>1, <1>2, <1>7, <2>1
    <2>2. CASE i \in 1..n /\ k \in (n + 1)..(n + m)
      BY <1>1, <1>2, <1>3, <2>2 DEF Elements
    <2>3. CASE i \in (n + 1)..(n + m)
      <3>1. k \in (n + 1)..(n + m) /\ i - n \in 1..m /\ k - n \in 1..m /\ i - n < k - n
        BY <1>7, <2>3
      <3> QED
        BY <1>1, <1>2, <2>3, <3>1
    <2> QED
      BY <1>3, <2>1, <2>2, <2>3
  <1>8. c \in Seq(T) /\ Len(c) = Len(s) + Len(t) /\ Elements(c) = Elements(s) \cup Elements(t)
    BY <1>1, <1>2, <1>4, <1>5, <1>6
  <1>9. \A i, k \in DOMAIN c : i < k =>
          \/ i \in DOMAIN s /\ k \in DOMAIN s /\ c[i] = s[i] /\ c[k] = s[k]
          \/ c[i] \in Elements(s) /\ c[k] \in Elements(t)
          \/ \E j, l \in DOMAIN t : j < l /\ c[i] = t[j] /\ c[k] = t[l]
    BY <1>2, <1>7
  <1> QED
    BY <1>0, <1>8, <1>9

LEMMA OneElement ==
    ASSUME NEW e
    PROVE  Elements(<<e>>) = {e}
  BY DEF Elements

LEMMA Appended ==
    ASSUME NEW T, NEW s \in Seq(T), NEW e \in T
    PROVE  /\ Append(s, e) \in Seq(T)
           /\ Elements(Append(s, e)) = Elements(s) \cup {e}
           /\ \A i, k \in DOMAIN Append(s, e) : i < k =>
                 \/ /\ i \in DOMAIN s /\ k \in DOMAIN s
                    /\ Append(s, e)[i] = s[i] /\ Append(s, e)[k] = s[k]
                 \/ Append(s, e)[i] \in Elements(s) /\ Append(s, e)[k] = e
  <1>1. PICK n \in Nat : n = Len(s) /\ DOMAIN s = 1..n
    OBVIOUS
  <1>2. PICK a : a = Append(s, e)
    OBVIOUS
  <1>3. /\ a \in Seq(T) /\ DOMAIN a = 1..(n + 1) /\ a[n + 1] = e
        /\ \A i \in 1..n : a[i] = s[i]
    BY <1>1, <1>2
  <1>4. Elements(a) = Elements(s) \cup {e}
    BY <1>1, <1>3 DEF Elements
  <1>5. \A i, k \in 1..(n + 1) : i < k => i \in 1..n /\ (k \in 1..n \/ k = n + 1)
    OBVIOUS
  <1>6. \A i \in 1..n : s[i] \in Elements(s)
    BY <1>1 DEF Elements
  <1> QED
    BY <1>1, <1>2, <1>3, <1>4, <1>5, <1>6

LEMMA TailGrows ==
    ASSUME NEW s \in Seq(Messages), s # << >>, Grows(s)
    PROVE  /\ Grows(Tail(s))
           /\ \A m \in Elements(Tail(s)) : Head(s) < m
  <1>1. /\ Head(s) = s[1] /\ 1 \in DOMAIN s /\ Tail(s) \in Seq(Messages)
        /\ \A i \in DOMAIN Tail(s) :
              i + 1 \in DOMAIN s /\ Tail(s)[i] = s[i + 1] /\ i \in Nat /\ i >= 1
    BY HeadTail
  <1>2. Grows(Tail(s))
    BY <1>1 DEF Grows
  <1>3. \A i \in DOMAIN Tail(s) : s[1] < Tail(s)[i]
    BY <1>1 DEF Grows
  <1> QED
    BY <1>1, <1>2, <1>3 DEF Elements

LEMMA TailInTurn ==
    ASSUME NEW s \in Seq(Messages \cup {Listen}), s # << >>, InTurn(s)
    PROVE  /\ InTurn(Tail(s))
           /\ Head(s) \notin Elements(Tail(s))
           /\ \A m \in Elements(Tail(s)) \ {Listen} : Head(s) = Listen \/ Head(s) < m
  <1>1. /\ Head(s) = s[1] /\ 1 \in DOMAIN s /\ Tail(s) \in Seq(Messages \cup {Listen})
        /\ \A i \in DOMAIN Tail(s) :
              i + 1 \in DOMAIN s /\ Tail(s)[i] = s[i + 1] /\ i \in Nat /\ i >= 1
    BY HeadTail
  <1>2. InTurn(Tail(s))
    <2> SUFFICES ASSUME NEW i \in DOMAIN Tail(s), NEW k \in DOMAIN Tail(s), i < k
                 PROVE  /\ Tail(s)[i] # Tail(s)[k]
                        /\ Listen \notin {Tail(s)[i], Tail(s)[k]} => Tail(s)[i] < Tail(s)[k]
      BY DEF InTurn
    <2>1. i + 1 < k + 1
      BY <1>1
    <2> QED
      BY <1>1, <2>1 DEF InTurn
  <1>3. \A i \in DOMAIN Tail(s) :
          /\ s[1] # Tail(s)[i]
          /\ Listen \notin {s[1], Tail(s)[i]} => s[1] < Tail(s)[i]
    <2> SUFFICES ASSUME NEW i \in DOMAIN Tail(s)
                 PROVE  /\ s[1] # s[i + 1]
                        /\ Listen \notin {s[1], s[i + 1]} => s[1] < s[i + 1]
      BY <1>1
    <2>1. 1 < i + 1 /\ i + 1 \in DOMAIN s
      BY <1>1
    <2> QED
      BY <1>1, <2>1 DEF InTurn
  <1> QED
    BY <1>1, <1>2, <1>3 DEF Elements

(* What is left of the tasks when the listener is removed.                 *)
LEMMA WritesOfTasks ==
    ASSUME NEW s \in Seq(Messages \cup {Listen}), InTurn(s)
    PROVE  /\ Writes(s) \in Seq(Messages)
           /\ Elements(Writes(s)) = Elements(s) \ {Listen}
           /\ Grows(Writes(s))
  <1> PICK n \in Nat : n = Len(s) /\ DOMAIN s = 1..n
    OBVIOUS
  <1>0. Listen \notin Messages /\ Messages \subseteq Int
    BY DEF Listen, Messages
  <1>1. CASE Listen \notin Elements(s)
    <2>1. \A i \in 1..n : s[i] \in Messages
      BY <1>1 DEF Elements
    <2>2. s \in Seq(Messages)
      BY <2>1
    <2>3. \A i, k \in 1..n : i < k => s[i] < s[k]
      BY <1>1 DEF InTurn, Elements
    <2> QED
      BY <1>1, <2>2, <2>3 DEF Writes, Grows
  <1>2. CASE Listen \in Elements(s)
    <2> DEFINE l == CHOOSE i \in DOMAIN s : s[i] = Listen
    <2>1. l \in 1..n /\ s[l] = Listen
      BY <1>2 DEF Elements
    <2>2. Writes(s) = SubSeq(s, 1, l - 1) \o SubSeq(s, l + 1, n)
      BY <1>2 DEF Writes
    <2> HIDE DEF l
    <2>3. \A i \in 1..n : i # l => s[i] \in Messages
      <3> SUFFICES ASSUME NEW i \in 1..n, i # l
                   PROVE  s[i] # Listen
        BY <1>0
      <3>1. i < l \/ l < i
        BY <2>1
      <3> QED
        BY <2>1, <3>1 DEF InTurn
    <2>4. PICK w : w = Writes(s)
      OBVIOUS
    <2>5. PICK a, b : a = SubSeq(s, 1, l - 1) /\ b = SubSeq(s, l + 1, n)
      OBVIOUS
    <2>6. /\ a \in Seq(Messages) /\ Len(a) = l - 1
          /\ \A i \in 1..(l - 1) : a[i] = s[i]
      <3>1. \A i \in 1..(l - 1) : i \in 1..n /\ i # l /\ s[i] \in Messages
        BY <2>1, <2>3
      <3> QED
        BY <2>1, <2>5, <3>1
    <2>7. /\ b \in Seq(Messages) /\ Len(b) = n - l
          /\ \A i \in 1..(n - l) : b[i] = s[i + l]
      <3>1. \A i \in (l + 1)..n : i \in 1..n /\ i # l /\ s[i] \in Messages
        BY <2>1, <2>3
      <3> QED
        BY <2>1, <2>5, <3>1
    <2>8. /\ w \in Seq(Messages) /\ DOMAIN w = 1..(n - 1)
          /\ \A i \in 1..(n - 1) : w[i] = IF i < l THEN s[i] ELSE s[i + 1]
      <3>1. /\ w \in Seq(Messages) /\ Len(w) = (l - 1) + (n - l)
            /\ \A i \in 1..(l - 1) : w[i] = a[i]
            /\ \A i \in l..(n - 1) : w[i] = b[i - (l - 1)]
        <4>1. w = a \o b
          BY <2>2, <2>4, <2>5
        <4>2. PICK p \in Nat, q \in Nat : p = Len(a) /\ q = Len(b) /\ p = l - 1 /\ q = n - l
          <5>1. l - 1 \in Nat /\ n - l \in Nat
            BY <2>1
          <5> QED
            BY <2>6, <2>7, <5>1
        <4>3. /\ w \in Seq(Messages) /\ Len(w) = p + q
              /\ \A i \in 1..p : w[i] = a[i]
              /\ \A i \in (p + 1)..(p + q) : w[i] = b[i - p]
          <5>1. a \in Seq(Messages) /\ b \in Seq(Messages)
            BY <2>6, <2>7
          <5>2. /\ a \o b \in Seq(Messages)
                /\ Len(a \o b) = Len(a) + Len(b)
                /\ \A i \in 1..Len(a) + Len(b) : (a \o b)[i] = IF i <= Len(a) THEN a[i] ELSE b[i - Len(a)]
            BY <5>1, ConcatProperties
          <5>3. \A i \in 1..(p + q) : w[i] = IF i <= p THEN a[i] ELSE b[i - p]
            BY <4>1, <4>2, <5>2
          <5>4. /\ \A i \in 1..p : i \in 1..(p + q) /\ i <= p
                /\ \A i \in (p + 1)..(p + q) : i \in 1..(p + q) /\ ~(i <= p)
            BY <4>2
          <5> QED
            BY <4>1, <4>2, <5>2, <5>3, <5>4
        <4>4. p + 1 = l /\ p + q = n - 1
          BY <2>1, <4>2
        <4> QED
          BY <4>2, <4>3, <4>4
      <3>2. \A i \in l..(n - 1) : i - (l - 1) \in 1..(n - l) /\ (i - (l - 1)) + l = i + 1
        BY <2>1
      <3>3. \A i \in l..(n - 1) : w[i] = s[i + 1]
        BY <2>7, <3>1, <3>2
      <3>4. Len(w) = n - 1 /\ DOMAIN w = 1..(n - 1)
        BY <2>1, <3>1
      <3>5. \A i \in 1..(n - 1) : i \in 1..(l - 1) \/ i \in l..(n - 1)
        BY <2>1
      <3> QED
        BY <2>1, <2>6, <3>1, <3>3, <3>4, <3>5
    <2>9. Grows(w)
      <3> SUFFICES ASSUME NEW i \in 1..(n - 1), NEW k \in 1..(n - 1), i < k
                   PROVE  w[i] < w[k]
        BY <2>8 DEF Grows
      <3>1. \A i1, k1 \in 1..n : i1 < k1 /\ i1 # l /\ k1 # l => s[i1] < s[k1]
        BY <1>0, <2>3 DEF InTurn
      <3> QED
        BY <2>1, <2>8, <3>1
    <2>10. Elements(w) = Elements(s) \ {Listen}
      <3>1. \A i \in 1..(n - 1) : w[i] \in Elements(s) /\ w[i] # Listen
        BY <1>0, <2>1, <2>3, <2>8 DEF Elements
      <3>2. ASSUME NEW i \in 1..n, s[i] # Listen
            PROVE  s[i] \in Elements(w)
        <4>1. CASE i < l
          <5>1. i \in 1..(n - 1) /\ w[i] = s[i]
            BY <2>1, <2>8, <4>1
          <5> QED
            BY <2>8, <5>1 DEF Elements
        <4>2. CASE l < i
          <5>1. i - 1 \in 1..(n - 1) /\ w[i - 1] = s[i]
            BY <2>1, <2>8, <4>2
          <5> QED
            BY <2>8, <5>1 DEF Elements
        <4> QED
          BY <2>1, <3>2, <4>1, <4>2
      <3>3. Elements(w) \subseteq Elements(s) \ {Listen}
        BY <2>8, <3>1 DEF Elements
      <3>4. Elements(s) \ {Listen} \subseteq Elements(w)
        BY <3>2 DEF Elements
      <3> QED
        BY <3>3, <3>4
    <2> QED
      BY <2>4, <2>8, <2>9, <2>10
  <1> QED
    BY <1>1, <1>2

-----------------------------------------------------------------------------
(* What a listener is told.                                                *)

LEMMA SentTypes ==
    ASSUME TypeOK
    PROVE  /\ Bids \in Nat /\ MaxMessages \in Nat /\ Len(sender) \in Nat
           /\ Len(sender) <= MaxMessages /\ Bids <= Len(sender)
           /\ Sent \subseteq Messages /\ Messages \subseteq Nat /\ IsFiniteSet(Sent)
           /\ DOMAIN saw = Sent
           /\ \A m \in Sent : sender[m] \in Users /\ saw[m] \subseteq Messages
           /\ \A m \in Sent : m \in Int /\ skew[sender[m]] \in Int /\ Created(m) \in Int
           /\ Listen \notin Messages
  <1>1. Bids \in Nat /\ MaxMessages \in Nat /\ Skews \subseteq Int
    BY ConstantsAssumption DEF ConstantsAssumption
  <1>2. sender \in Seq(Users) /\ Len(sender) \in Nat /\ Len(sender) \in Bids..MaxMessages
    BY DEF TypeOK
  <1>3. \A m \in Sent : sender[m] \in Users /\ m \in Nat
    BY <1>2 DEF Sent
  <1>4. \A m \in Sent : skew[sender[m]] \in Int /\ Created(m) \in Int
    <2>1. skew \in [Users -> Skews]
      BY DEF TypeOK
    <2>2. \A v \in Users : skew[v] \in Int
      BY <1>1, <2>1
    <2> QED
      BY <1>3, <2>2 DEF Created
  <1>5. IsFiniteSet(Sent)
    BY <1>2, FS_Interval DEF Sent
  <1>6. Sent \subseteq Messages /\ Messages \subseteq Nat /\ Listen \notin Messages
    BY <1>1, <1>2 DEF Sent, Messages, Listen
  <1>7. saw \in [Sent -> SUBSET Messages]
    BY DEF TypeOK, Sent
  <1> QED
    BY <1>1, <1>2, <1>3, <1>4, <1>5, <1>6, <1>7

LEMMA SnapshotInOrder ==
    ASSUME TypeOK, NEW S \in SUBSET Sent, NEW s \in InOrder(S)
    PROVE  /\ s \in Seq(Messages)
           /\ Elements(s) = S
           /\ \A i, k \in DOMAIN s : i < k =>
                 /\ s[i] \in Sent /\ s[k] \in Sent
                 /\ Before(s[i], s[k])
                 /\ s[i] # s[k]
                 /\ sender[s[i]] = sender[s[k]] => s[i] < s[k]
  <1>1. IsFiniteSet(S)
    BY SentTypes, FS_Subset
  <1>2. Cardinality(S) \in Nat
    BY <1>1, FS_CardinalityType
  <1>3. /\ s \in [1..Cardinality(S) -> S]
        /\ Elements(s) = S
        /\ \A i, k \in DOMAIN s : i < k => Before(s[i], s[k])
    BY DEF InOrder
  <1>4. s \in Seq(Messages)
    <2>1. s \in [1..Cardinality(S) -> Messages]
      BY <1>3, SentTypes
    <2> QED
      BY <1>2, <2>1
  <1>5. \A i \in DOMAIN s : s[i] \in Sent
    BY <1>3
  <1>6. ASSUME NEW m \in Sent, NEW n \in Sent, Before(m, n)
        PROVE  m # n /\ (sender[m] = sender[n] => m < n)
    <2>1. m \in Int /\ n \in Int /\ skew[sender[m]] \in Int /\ skew[sender[n]] \in Int
      BY SentTypes
    <2> QED
      BY <1>6, <2>1 DEF Before, Created
  <1> QED
    BY <1>3, <1>4, <1>5, <1>6

LEMMA TellResult ==
    ASSUME TypeOK, NEW u \in Users, NEW S \in SUBSET Sent, Tell(u, S),
           LogInOrder(u, heard[u]),
           \A m \in Heard(u) : \A n \in S \ Heard(u) :
               /\ sender[m] = sender[n] => m < n \/ (sender[n] = u /\ n <= Bids)
               /\ n \notin saw[m]
    PROVE  /\ heard' \in [Users -> Seq(Messages)]
           /\ \A v \in Users : v # u => heard'[v] = heard[v]
           /\ Elements(heard'[u]) = Heard(u) \cup S
           /\ Len(heard[u]) <= Len(heard'[u])
           /\ LogInOrder(u, heard'[u])
  <1>1. heard \in [Users -> Seq(Messages)] /\ heard[u] \in Seq(Messages)
    BY DEF TypeOK
  <1>2. CASE S \subseteq Heard(u)
    <2>1. heard' = heard
      BY <1>2 DEF Tell, Heard
    <2> QED
      BY <1>1, <1>2, <2>1 DEF Heard
  <1>3. CASE ~ S \subseteq Heard(u)
    <2>1. PICK s \in InOrder(S \ Heard(u)) : heard' = [heard EXCEPT ![u] = @ \o s]
      BY <1>3 DEF Tell, Heard
    <2>2. /\ s \in Seq(Messages)
          /\ Elements(s) = S \ Heard(u)
          /\ \A i, k \in DOMAIN s : i < k =>
                /\ s[i] \in Sent /\ s[k] \in Sent
                /\ Before(s[i], s[k])
                /\ s[i] # s[k]
                /\ sender[s[i]] = sender[s[k]] => s[i] < s[k]
      <3>1. S \ Heard(u) \in SUBSET Sent
        OBVIOUS
      <3> QED
        BY <3>1, SnapshotInOrder
    <2>3. PICK h : h = heard[u] \o s
      OBVIOUS
    <2>4. /\ h \in Seq(Messages)
          /\ Len(h) = Len(heard[u]) + Len(s)
          /\ Elements(h) = Heard(u) \cup Elements(s)
          /\ \A i, k \in DOMAIN h : i < k =>
                \/ /\ i \in DOMAIN heard[u] /\ k \in DOMAIN heard[u]
                   /\ h[i] = heard[u][i] /\ h[k] = heard[u][k]
                \/ h[i] \in Heard(u) /\ h[k] \in Elements(s)
                \/ \E j, l \in DOMAIN s : j < l /\ h[i] = s[j] /\ h[k] = s[l]
      BY <1>1, <2>2, <2>3, Concat DEF Heard
    <2>5. LogInOrder(u, h)
      <3> SUFFICES ASSUME NEW i \in DOMAIN h, NEW k \in DOMAIN h, i < k
                   PROVE  /\ h[i] # h[k]
                          /\ sender[h[i]] = sender[h[k]] =>
                                h[i] < h[k] \/ (sender[h[k]] = u /\ h[k] <= Bids)
                          /\ h[k] \in saw[h[i]] => Before(h[i], h[k])
        BY DEF LogInOrder
      <3>1. CASE /\ i \in DOMAIN heard[u] /\ k \in DOMAIN heard[u]
                 /\ h[i] = heard[u][i] /\ h[k] = heard[u][k]
        BY <3>1 DEF LogInOrder
      <3>2. CASE h[i] \in Heard(u) /\ h[k] \in Elements(s)
        BY <2>2, <3>2
      <3>3. CASE \E j, l \in DOMAIN s : j < l /\ h[i] = s[j] /\ h[k] = s[l]
        BY <2>2, <3>3
      <3> QED
        BY <2>4, <3>1, <3>2, <3>3
    <2>6. heard'[u] = h /\ heard' \in [Users -> Seq(Messages)]
          /\ \A v \in Users : v # u => heard'[v] = heard[v]
      BY <1>1, <2>1, <2>3, <2>4
    <2>7. Len(heard[u]) <= Len(h)
      <3>1. Len(heard[u]) \in Nat /\ Len(s) \in Nat
        BY <1>1, <2>2
      <3> QED
        BY <2>4, <3>1
    <2> QED
      BY <2>2, <2>4, <2>5, <2>6, <2>7
  <1> QED
    BY <1>2, <1>3

-----------------------------------------------------------------------------
(* The parts of the invariant.                                             *)

LEMMA PhoneTypes ==
    ASSUME TypeOK, NEW u \in Users
    PROVE  /\ queue[u] \in Seq(Messages)
           /\ tasks[u] \in Seq(Messages \cup {Listen})
           /\ heard[u] \in Seq(Messages)
           /\ filled[u] \in Nat /\ rows[u] \in Nat
           /\ Queued(u) \subseteq Messages /\ Asked(u) \subseteq Messages /\ Heard(u) \subseteq Messages
  <1>1. /\ queue[u] \in Seq(Messages) /\ tasks[u] \in Seq(Messages \cup {Listen})
        /\ heard[u] \in Seq(Messages) /\ filled[u] \in Nat /\ rows[u] \in Nat
    BY DEF TypeOK
  <1> QED
    BY <1>1, Elements1 DEF Queued, Asked, Heard

(* What nobody will hear of stays so.                                      *)
LEMMA GoneStays ==
    ASSUME TypeOK, Live' \subseteq Live \cup {Len(sender) + 1},
           NEW n \in Sent, Gone(n)
    PROVE  Gone(n)'
  BY SentTypes DEF Gone, Sent

LEMMA ClosedStays ==
    ASSUME TypeOK, AllSent, Live' \subseteq Live \cup {Len(sender) + 1},
           NEW S \in SUBSET Sent, NEW T, Closed(S, T),
           NEW m \in S, NEW n \in saw[m], n \notin T
    PROVE  Gone(n)'
  <1>1. n \in Sent
    BY SentTypes DEF AllSent, Sent
  <1> QED
    BY <1>1, GoneStays DEF Closed

(* The rows of a log that is as it was, or empty.                          *)
LEMMA LogStays ==
    ASSUME NEW u \in Users, LogInOrder(u, heard[u]),
           heard'[u] = heard[u] \/ heard'[u] = << >>,
           UNCHANGED <<sender, saw, skew>>
    PROVE  LogInOrder(u, heard[u])'
  BY DEF LogInOrder, Before, Created

LEMMA LiveShrinks ==
    ASSUME stored' \subseteq stored,
           \A v \in Users : Queued(v)' \cup Asked(v)' \subseteq Queued(v) \cup Asked(v)
    PROVE  Live' \subseteq Live
  BY DEF Live

(* Tasks are dropped, or a log is closed.                                  *)
LEMMA Shrinks ==
    ASSUME ChatInv, UNCHANGED <<sender, saw, skew, stored, known>>,
           \A v \in Users :
               /\ Queued(v)' = Queued(v)
               /\ Asked(v)' \subseteq Asked(v)
               /\ heard'[v] = heard[v] \/ heard'[v] = << >>
    PROVE  /\ AllSent' /\ KnownIsPrefix' /\ RepliesClosed' /\ LogsInOrder'
           /\ \A v \in Users : \A m \in Heard(v)' : m \in Local(v)' \/ Lost(v, m)'
  <1>1. Live' \subseteq Live
    BY LiveShrinks
  <1>2. \A v \in Users : /\ Heard(v)' = Heard(v) \/ Heard(v)' = {}
                         /\ Heard(v)' \subseteq Heard(v)
                         /\ Local(v)' = Local(v)
    BY NoElements DEF Heard, Local, Queued
  <1>3. AllSent'
    BY <1>2 DEF ChatInv, AllSent, Sent
  <1>4. KnownIsPrefix'
    BY DEF ChatInv, KnownIsPrefix
  <1>5. Closed(stored, stored)'
    <2>1. stored \in SUBSET Sent
      BY DEF ChatInv, AllSent
    <2> QED
      BY <1>1, <2>1, ClosedStays DEF ChatInv, RepliesClosed, Closed
  <1>6. ASSUME NEW v \in Users
        PROVE  Closed(Local(v) \cup Asked(v), Local(v))'
    <2>1. Local(v) \cup Asked(v) \in SUBSET Sent
      BY <1>6 DEF ChatInv, AllSent, Local, Queued
    <2> QED
      BY <1>1, <1>2, <2>1, ClosedStays DEF ChatInv, RepliesClosed, Closed
  <1>7. ASSUME NEW v \in Users
        PROVE  Closed(Heard(v), Heard(v))'
    <2>1. Heard(v) \in SUBSET Sent
      BY DEF ChatInv, AllSent
    <2> QED
      BY <1>1, <1>2, <2>1, ClosedStays DEF ChatInv, RepliesClosed, Closed
  <1>8. LogsInOrder'
    BY LogStays DEF ChatInv, LogsInOrder
  <1>9. ASSUME NEW v \in Users, NEW m \in Heard(v)'
        PROVE  m \in Local(v)' \/ Lost(v, m)'
    <2>1. m \in Heard(v) /\ m \in Sent
      BY <1>2 DEF ChatInv, AllSent
    <2>2. Gone(m) => Gone(m)'
      BY <1>1, <2>1, GoneStays DEF ChatInv
    <2> QED
      BY <1>2, <2>1, <2>2 DEF ChatInv, ListenersTell, Lost
  <1> QED
    BY <1>3, <1>4, <1>5, <1>6, <1>7, <1>8, <1>9 DEF RepliesClosed

LEMMA InitHolds == Init => ChatInv
  <1> SUFFICES ASSUME Init
               PROVE  ChatInv
    OBVIOUS
  <1>1. Bids \in Nat /\ MaxMessages \in Nat /\ Bids <= MaxMessages
    BY ConstantsAssumption DEF ConstantsAssumption
  <1>2. sender \in Seq(Users) /\ Len(sender) = Bids
    BY <1>1 DEF Init
  <1>3. \A u \in Users : Queued(u) = {} /\ Asked(u) = {} /\ Heard(u) = {}
                         /\ Elements(tasks[u]) = {}
    BY NoElements DEF Init, Queued, Asked, Heard
  <1>4. TypeOK
    <2>1. Len(sender) \in Bids..MaxMessages
      BY <1>1, <1>2
    <2>2. stored \in SUBSET Messages /\ known \in [Users -> SUBSET Messages]
      <3>1. 1..Bids \in SUBSET Messages
        BY <1>1 DEF Messages
      <3>2. stored = 1..Bids /\ known \in [Users -> {{}, 1..Bids}]
        BY DEF Init
      <3> QED
        BY <3>1, <3>2
    <2>3. saw \in [1..Len(sender) -> SUBSET Messages]
      BY <1>2 DEF Init
    <2>4. /\ queue \in [Users -> Seq(Messages)] /\ heard \in [Users -> Seq(Messages)]
          /\ tasks \in [Users -> Seq(Messages \cup {Listen})]
      BY EmptySeq DEF Init
    <2>5. /\ filled \in [Users -> Nat] /\ rows \in [Users -> Nat]
          /\ \A u \in Users : rows[u] <= filled[u] /\ filled[u] <= Len(heard[u])
      BY EmptySeq DEF Init
    <2> QED
      BY <1>2, <2>1, <2>2, <2>3, <2>4, <2>5 DEF Init, TypeOK
  <1>5. AllSent
    BY <1>1, <1>2, <1>3 DEF Init, AllSent, Sent
  <1>6. InLine
    BY <1>3 DEF Init, InLine, Grows, InTurn
  <1>7. KnownIsPrefix
    BY <1>1 DEF Init, KnownIsPrefix
  <1>8. ListenersTell
    BY <1>3 DEF Init, ListenersTell, Listening
  <1>9. RepliesClosed
    BY <1>3 DEF Init, RepliesClosed, Closed, Local, Queued
  <1>10. LogsInOrder
    BY DEF Init, LogsInOrder, LogInOrder
  <1> QED
    BY <1>4, <1>5, <1>6, <1>7, <1>8, <1>9, <1>10 DEF ChatInv

-----------------------------------------------------------------------------
(* The screen's steps.                                                     *)

LEMMA OpenLogKeeps ==
    ASSUME ChatInv, NEW u \in Users, OpenLog(u)
    PROVE  ChatInv'
  <1>1. TypeOK
    BY DEF ChatInv
  <1>2. tasks[u] \in Seq(Messages \cup {Listen}) /\ Listen \in Messages \cup {Listen}
    BY <1>1, PhoneTypes
  <1>3. tasks' = [tasks EXCEPT ![u] = Append(tasks[u], Listen)]
    BY DEF OpenLog
  <1>4. tasks'[u] = Append(tasks[u], Listen) /\ \A v \in Users : v # u => tasks'[v] = tasks[v]
    BY <1>1, <1>3 DEF TypeOK
  <1>5. /\ tasks'[u] \in Seq(Messages \cup {Listen})
        /\ Elements(tasks'[u]) = Elements(tasks[u]) \cup {Listen}
        /\ \A i, k \in DOMAIN tasks'[u] : i < k =>
              \/ /\ i \in DOMAIN tasks[u] /\ k \in DOMAIN tasks[u]
                 /\ tasks'[u][i] = tasks[u][i] /\ tasks'[u][k] = tasks[u][k]
              \/ tasks'[u][i] \in Elements(tasks[u]) /\ tasks'[u][k] = Listen
    BY <1>2, <1>4, Appended
  <1>6. Listen \notin Elements(tasks[u])
    BY DEF ChatInv, ListenersTell, OpenLog
  <1>7. \A v \in Users : /\ Asked(v)' = Asked(v) /\ Queued(v)' = Queued(v)
                         /\ Heard(v)' = Heard(v) /\ Local(v)' = Local(v)
    BY <1>4, <1>5 DEF Asked, Queued, Heard, Local, OpenLog
  <1>8. TypeOK'
    BY <1>1, <1>3, <1>5 DEF TypeOK, OpenLog
  <1>9. InLine'
    <2>1. InTurn(tasks'[u])
      BY <1>5, <1>6 DEF ChatInv, InLine, InTurn
    <2>2. \A v \in Users : Grows(queue[v])' /\ InTurn(tasks[v])'
      BY <1>4, <2>1 DEF ChatInv, InLine, OpenLog, Grows, InTurn
    <2> QED
      BY <1>7, <2>2 DEF ChatInv, InLine, OpenLog
  <1>10. /\ AllSent' /\ KnownIsPrefix' /\ RepliesClosed' /\ LogsInOrder'
         /\ \A v \in Users : \A m \in Heard(v)' : m \in Local(v)' \/ Lost(v, m)'
    BY <1>7, Shrinks DEF OpenLog
  <1>11. ASSUME NEW v \in Users
         PROVE  /\ v \notin open' => Listen \notin Elements(tasks[v])'
                /\ ~Listening(v)' => heard'[v] = << >>
                /\ Listening(v)' => Local(v)' \subseteq Heard(v)'
    <2>1. CASE v = u
      BY <1>5, <1>6, <2>1 DEF ChatInv, ListenersTell, OpenLog, Listening
    <2>2. CASE v # u
      BY <1>4, <1>7, <2>2 DEF ChatInv, ListenersTell, OpenLog, Listening
    <2> QED
      BY <2>1, <2>2
  <1> QED
    BY <1>8, <1>9, <1>10, <1>11 DEF ChatInv, ListenersTell

LEMMA RowsTyped ==
    ASSUME TypeOK, UNCHANGED <<skew, sender, stored, known, queue, tasks, open, heard, saw>>,
           filled' \in [Users -> Nat], rows' \in [Users -> Nat],
           \A v \in Users : rows'[v] <= filled'[v] /\ filled'[v] <= Len(heard[v])
    PROVE  TypeOK'
  BY DEF TypeOK

LEMMA MainQueueKeeps ==
    ASSUME ChatInv, NEW u \in Users, MainQueue(u)
    PROVE  ChatInv'
  <1>1. /\ TypeOK /\ heard[u] \in Seq(Messages)
        /\ filled[u] \in Nat /\ rows[u] \in Nat /\ rows[u] <= filled[u]
    BY PhoneTypes DEF ChatInv, TypeOK
  <1>2. UNCHANGED <<skew, sender, stored, known, queue, tasks, open, heard, saw>>
    BY DEF MainQueue, AppendMessage, ReloadRows
  <1>3. ASSUME AppendMessage(u)
        PROVE  TypeOK'
    <2>1. filled' = [filled EXCEPT ![u] = filled[u] + 1] /\ filled[u] < Len(heard[u])
      BY <1>3 DEF AppendMessage
    <2>2. /\ filled[u] + 1 \in Nat
          /\ rows[u] <= filled[u] + 1 /\ filled[u] + 1 <= Len(heard[u])
      BY <1>1, <2>1
    <2>3. rows' = rows
      BY <1>3 DEF AppendMessage
    <2>4. /\ filled' \in [Users -> Nat]
          /\ \A v \in Users : rows[v] <= filled'[v] /\ filled'[v] <= Len(heard[v])
      BY <1>1, <2>1, <2>2 DEF TypeOK
    <2>5. rows' \in [Users -> Nat]
          /\ \A v \in Users : rows'[v] <= filled'[v] /\ filled'[v] <= Len(heard[v])
      BY <1>1, <2>3, <2>4 DEF TypeOK
    <2> QED
      BY <1>1, <1>2, <2>4, <2>5, RowsTyped
  <1>4. ASSUME ReloadRows(u)
        PROVE  TypeOK'
    <2>1. rows' = [rows EXCEPT ![u] = filled[u]] /\ filled' = filled
      BY <1>4 DEF ReloadRows
    <2>2. rows' \in [Users -> Nat] /\ \A v \in Users : rows'[v] <= filled[v]
      BY <1>1, <2>1 DEF TypeOK
    <2>3. filled' \in [Users -> Nat]
          /\ \A v \in Users : rows'[v] <= filled'[v] /\ filled'[v] <= Len(heard[v])
      BY <1>1, <2>1, <2>2 DEF TypeOK
    <2> QED
      BY <1>1, <1>2, <2>2, <2>3, RowsTyped
  <1>5. TypeOK'
    <2>1. AppendMessage(u) \/ ReloadRows(u)
      BY DEF MainQueue
    <2> QED
      BY <1>3, <1>4, <2>1
  <1>6. /\ AllSent' /\ KnownIsPrefix' /\ RepliesClosed' /\ LogsInOrder'
        /\ \A v \in Users : \A m \in Heard(v)' : m \in Local(v)' \/ Lost(v, m)'
    BY <1>2, Shrinks DEF Queued, Asked
  <1>7. InLine'
    BY <1>2 DEF ChatInv, InLine, Queued, Asked, Heard, Grows, InTurn
  <1>8. ListenersTell'
    BY <1>2, <1>6 DEF ChatInv, ListenersTell, Listening, Local, Queued, Heard
  <1> QED
    BY <1>5, <1>6, <1>7, <1>8 DEF ChatInv

(* The log goes; what was asked is dropped, or kept but for the listener.  *)
LEMMA ClearKeeps ==
    ASSUME ChatInv, NEW u \in Users, ClearLog(u),
           NEW t \in Seq(Messages \cup {Listen}), tasks' = [tasks EXCEPT ![u] = t],
           Listen \notin Elements(t), Elements(t) \subseteq Asked(u), InTurn(t),
           queue' = queue,
           UNCHANGED <<sender, saw, skew, stored, known>>
    PROVE  ChatInv'
  <1>1. TypeOK
    BY DEF ChatInv
  <1>2. /\ open' = open \ {u}
        /\ heard' = [heard EXCEPT ![u] = << >>]
        /\ filled' = [filled EXCEPT ![u] = 0] /\ rows' = [rows EXCEPT ![u] = 0]
    BY DEF ClearLog
  <1>3. /\ tasks'[u] = t /\ heard'[u] = << >> /\ filled'[u] = 0 /\ rows'[u] = 0
        /\ \A v \in Users : v # u =>
              /\ tasks'[v] = tasks[v] /\ heard'[v] = heard[v]
              /\ filled'[v] = filled[v] /\ rows'[v] = rows[v]
    BY <1>1, <1>2 DEF TypeOK
  <1>4. TypeOK'
    <2>1. /\ heard' \in [Users -> Seq(Messages)]
          /\ filled' \in [Users -> Nat] /\ rows' \in [Users -> Nat]
          /\ tasks' \in [Users -> Seq(Messages \cup {Listen})]
      BY <1>1, <1>2, EmptySeq DEF TypeOK
    <2>2. \A v \in Users : rows'[v] <= filled'[v] /\ filled'[v] <= Len(heard'[v])
      <3>1. \A v \in Users :
               v # u => rows'[v] <= filled'[v] /\ filled'[v] <= Len(heard'[v])
        BY <1>1, <1>3 DEF TypeOK
      <3>2. rows'[u] <= filled'[u] /\ filled'[u] <= Len(heard'[u])
        BY <1>3
      <3> QED
        BY <3>1, <3>2
    <2>3. open' \in SUBSET Users
      BY <1>1, <1>2 DEF TypeOK
    <2> QED
      BY <1>1, <2>1, <2>2, <2>3 DEF TypeOK
  <1>5. \A v \in Users : /\ Queued(v)' = Queued(v)
                         /\ Asked(v)' \subseteq Asked(v)
                         /\ Heard(v)' \subseteq Heard(v)
                         /\ heard'[v] = heard[v] \/ heard'[v] = << >>
    BY <1>3, NoElements DEF Asked, Queued, Heard
  <1>6. /\ AllSent' /\ KnownIsPrefix' /\ RepliesClosed' /\ LogsInOrder'
        /\ \A v \in Users : \A m \in Heard(v)' : m \in Local(v)' \/ Lost(v, m)'
    BY <1>5, Shrinks
  <1>7. InLine'
    <2>1. \A v \in Users : Grows(queue[v])' /\ InTurn(tasks[v])'
      BY <1>3 DEF ChatInv, InLine, Grows, InTurn
    <2> QED
      BY <1>5, <2>1 DEF ChatInv, InLine
  <1>8. ASSUME NEW v \in Users
        PROVE  /\ v \notin open' => Listen \notin Elements(tasks[v])'
               /\ ~Listening(v)' => heard'[v] = << >>
               /\ Listening(v)' => Local(v)' \subseteq Heard(v)'
    <2>1. CASE v = u
      BY <1>2, <1>3, <2>1 DEF Listening
    <2>2. CASE v # u
      BY <1>2, <1>3, <1>5, <2>2 DEF ChatInv, ListenersTell, Listening, Local, Heard
    <2> QED
      BY <2>1, <2>2
  <1> QED
    BY <1>4, <1>6, <1>7, <1>8 DEF ChatInv, ListenersTell

LEMMA CloseLogKeeps ==
    ASSUME ChatInv, NEW u \in Users, CloseLog(u)
    PROVE  ChatInv'
  <1>1. tasks[u] \in Seq(Messages \cup {Listen}) /\ InTurn(tasks[u])
    BY PhoneTypes DEF ChatInv, InLine
  <1>2. PICK t : t = Writes(tasks[u])
    OBVIOUS
  <1>3. t \in Seq(Messages) /\ Elements(t) = Asked(u) /\ Grows(t)
    BY <1>1, <1>2, WritesOfTasks DEF Asked
  <1>4. InTurn(t)
    <2>1. \A i \in DOMAIN t : t[i] \in Messages
      BY <1>3
    <2>2. \A i \in DOMAIN t : t[i] \in Int
      BY <2>1 DEF Messages
    <2> QED
      BY <1>3, <2>2 DEF Grows, InTurn
  <1>5. t \in Seq(Messages \cup {Listen})
    BY <1>3
  <1>6. Listen \notin Elements(t)
    BY <1>3 DEF Asked
  <1> QED
    BY <1>2, <1>3, <1>4, <1>5, <1>6, ClearKeeps DEF CloseLog

LEMMA DieKeeps ==
    ASSUME ChatInv, NEW u \in Users, Die(u, queue[u]),
           UNCHANGED <<sender, saw, skew, stored, known>>
    PROVE  ChatInv'
  <1>1. queue' = queue
    BY DEF Die, ChatInv, TypeOK
  <1>2. << >> \in Seq(Messages \cup {Listen}) /\ InTurn(<< >>)
    BY EmptySeq DEF InTurn
  <1> QED
    BY <1>1, <1>2, NoElements, ClearKeeps DEF Die

-----------------------------------------------------------------------------
(* The client's steps.                                                     *)

(* One listener is told; the other logs are as they were.                  *)
LEMMA ToldLogs ==
    ASSUME LogsInOrder, NEW u \in Users, LogInOrder(u, heard'[u]),
           \A v \in Users : v # u => heard'[v] = heard[v],
           UNCHANGED <<sender, saw, skew>>
    PROVE  LogsInOrder'
  <1> SUFFICES ASSUME NEW v \in Users
               PROVE  LogInOrder(v, heard[v])'
    BY DEF LogsInOrder
  <1>1. LogInOrder(v, heard'[v])
    BY DEF LogsInOrder
  <1> QED
    BY <1>1 DEF LogInOrder, Before, Created

LEMMA StartListeningKeeps ==
    ASSUME ChatInv, NEW u \in Users, StartListening(u)
    PROVE  ChatInv'
  <1>1. TypeOK
    BY DEF ChatInv
  <1>2. tasks[u] \in Seq(Messages \cup {Listen}) /\ tasks[u] # << >> /\ InTurn(tasks[u])
        /\ Head(tasks[u]) = Listen
    BY <1>1, PhoneTypes DEF ChatInv, InLine, StartListening
  <1>3. PICK t : t = Tail(tasks[u])
    OBVIOUS
  <1>4. /\ t \in Seq(Messages \cup {Listen}) /\ InTurn(t)
        /\ Elements(tasks[u]) = {Listen} \cup Elements(t)
        /\ Listen \notin Elements(t)
    BY <1>2, <1>3, HeadTail, TailInTurn
  <1>5. /\ tasks' = [tasks EXCEPT ![u] = t] /\ tasks'[u] = t
        /\ \A v \in Users : v # u => tasks'[v] = tasks[v]
    BY <1>1, <1>3 DEF StartListening, Done, TypeOK
  <1>6. UNCHANGED <<skew, sender, stored, known, queue, open, filled, rows, saw>>
    BY DEF StartListening
  <1>7. u \in open /\ heard[u] = << >> /\ Heard(u) = {}
    BY <1>4, NoElements DEF ChatInv, ListenersTell, Listening, Heard
  <1>8. Local(u) \in SUBSET Sent
    BY DEF ChatInv, AllSent, Local, Queued
  <1>9. /\ heard' \in [Users -> Seq(Messages)]
        /\ \A v \in Users : v # u => heard'[v] = heard[v]
        /\ Elements(heard'[u]) = Local(u)
        /\ Len(heard[u]) <= Len(heard'[u])
        /\ LogInOrder(u, heard'[u])
    <2>1. Tell(u, Local(u)) /\ LogInOrder(u, heard[u])
      BY DEF StartListening, TellFirst, ChatInv, LogsInOrder
    <2> QED
      BY <1>1, <1>7, <1>8, <2>1, TellResult
  <1>10. TypeOK'
    <2>1. tasks' \in [Users -> Seq(Messages \cup {Listen})]
      BY <1>1, <1>4, <1>5 DEF TypeOK
    <2>2. filled[u] = 0
      BY <1>1, <1>7 DEF TypeOK
    <2>3. \A v \in Users : filled[v] <= Len(heard'[v])
      BY <1>1, <1>7, <1>9, <2>2 DEF TypeOK
    <2> QED
      BY <1>1, <1>6, <1>9, <2>1, <2>3 DEF TypeOK
  <1>11. \A v \in Users : /\ Queued(v)' = Queued(v) /\ Asked(v)' = Asked(v)
                          /\ Local(v)' = Local(v)
                          /\ v # u => Heard(v)' = Heard(v)
    BY <1>4, <1>5, <1>6, <1>9 DEF Queued, Asked, Local, Heard
  <1>12. Heard(u)' = Local(u)
    BY <1>9 DEF Heard
  <1>13. Live' = Live
    BY <1>6, <1>11 DEF Live
  <1>14. AllSent'
    BY <1>6, <1>8, <1>11, <1>12 DEF ChatInv, AllSent, Sent
  <1>15. InLine'
    <2>1. \A v \in Users : Grows(queue[v])' /\ InTurn(tasks[v])'
      BY <1>4, <1>5, <1>6 DEF ChatInv, InLine, Grows, InTurn
    <2>2. ASSUME NEW m \in Local(u), NEW n \in Asked(u), sender[m] = u
          PROVE  m < n
      BY <2>2 DEF ChatInv, InLine, AllSent, Local, Queued
    <2> QED
      BY <1>6, <1>11, <1>12, <2>1, <2>2 DEF ChatInv, InLine
  <1>16. KnownIsPrefix'
    BY <1>6 DEF ChatInv, KnownIsPrefix
  <1>17. ListenersTell'
    BY <1>4, <1>5, <1>6, <1>7, <1>9, <1>11, <1>12, <1>13
    DEF ChatInv, ListenersTell, Listening, Lost, Gone
  <1>18. RepliesClosed'
    BY <1>6, <1>11, <1>12, <1>13 DEF ChatInv, RepliesClosed, Closed, Gone
  <1>19. LogsInOrder'
    BY <1>6, <1>9, ToldLogs DEF ChatInv
  <1> QED
    BY <1>10, <1>14, <1>15, <1>16, <1>17, <1>18, <1>19 DEF ChatInv

LEMMA SyncKeeps ==
    ASSUME ChatInv, NEW u \in Users, Sync(u)
    PROVE  ChatInv'
  <1>1. TypeOK
    BY DEF ChatInv
  <1>2. /\ known' = [known EXCEPT ![u] = stored] /\ known'[u] = stored
        /\ \A v \in Users : v # u => known'[v] = known[v]
        /\ UNCHANGED <<skew, sender, stored, queue, tasks, open, filled, rows, saw>>
    BY <1>1 DEF Sync, TypeOK
  <1> DEFINE S == stored \cup Queued(u)
  <1>3. S \in SUBSET Sent /\ Local(u) \subseteq S /\ S \subseteq Live
    BY DEF ChatInv, AllSent, Local, Queued, Live
  <1>4. /\ \A v \in Users : Queued(v)' = Queued(v) /\ Asked(v)' = Asked(v)
        /\ \A v \in Users : v # u => Local(v)' = Local(v)
        /\ Local(u)' = S
        /\ Live' = Live
        /\ \A v \in Users : Listening(v)' = Listening(v)
    BY <1>2 DEF Queued, Asked, Local, Live, Listening
  <1> HIDE DEF S
  <1>5. /\ heard' \in [Users -> Seq(Messages)]
        /\ \A v \in Users : v # u => heard'[v] = heard[v]
        /\ Len(heard[u]) <= Len(heard'[u])
        /\ LogInOrder(u, heard'[u])
        /\ Listening(u) => Elements(heard'[u]) = Heard(u) \cup S
        /\ ~Listening(u) => heard'[u] = heard[u]
    <2>1. CASE ~Listening(u)
      <3>1. heard' = heard
        BY <2>1 DEF Sync
      <3>2. Len(heard[u]) \in Nat
        BY <1>1, PhoneTypes
      <3> QED
        BY <1>1, <2>1, <3>1, <3>2 DEF TypeOK, ChatInv, LogsInOrder
    <2>2. CASE Listening(u)
      <3>1. Tell(u, S) /\ LogInOrder(u, heard[u])
        BY <2>2 DEF Sync, Queued, ChatInv, LogsInOrder, S
      <3>2. ASSUME NEW m \in Heard(u), NEW n \in S \ Heard(u)
            PROVE  /\ sender[m] = sender[n] => m < n \/ (sender[n] = u /\ n <= Bids)
                   /\ n \notin saw[m]
        <4>1. n \notin Local(u)
          BY <2>2 DEF ChatInv, ListenersTell
        <4>2. n \in stored \ known[u] /\ n \in Live
          BY <1>3, <4>1 DEF S, Local, Queued
        <4>3. n \notin saw[m]
          BY <4>2 DEF ChatInv, RepliesClosed, Closed, Gone
        <4>4. CASE sender[n] = u
          BY <4>2, <4>3, <4>4 DEF ChatInv, KnownIsPrefix
        <4>5. CASE sender[n] # u /\ sender[m] = sender[n]
          <5>1. m \in Local(u) \/ Lost(u, m)
            BY DEF ChatInv, ListenersTell
          <5>2. CASE m \in known[u]
            BY <4>2, <4>3, <4>5, <5>2 DEF ChatInv, KnownIsPrefix
          <5>3. CASE m \in Queued(u)
            BY <4>5, <5>3 DEF ChatInv, AllSent
          <5>4. CASE Lost(u, m)
            BY <4>5, <5>4 DEF Lost
          <5> QED
            BY <5>1, <5>2, <5>3, <5>4 DEF Local, Queued
        <4> QED
          BY <4>3, <4>4, <4>5
      <3> QED
        BY <1>1, <1>3, <2>2, <3>1, <3>2, TellResult
    <2> QED
      BY <2>1, <2>2
  <1>6. \A v \in Users : v # u => Heard(v)' = Heard(v)
    BY <1>5 DEF Heard
  <1>7. /\ Listening(u) => Heard(u)' = Heard(u) \cup S
        /\ ~Listening(u) => Heard(u)' = Heard(u) /\ Heard(u) = {}
    BY <1>5, NoElements DEF Heard, ChatInv, ListenersTell
  <1>8. TypeOK'
    <2>1. known' \in [Users -> SUBSET Messages]
      BY <1>1, <1>2 DEF TypeOK
    <2>2. \A v \in Users : filled[v] <= Len(heard'[v])
      <3>1. filled[u] \in Nat /\ Len(heard[u]) \in Nat /\ Len(heard'[u]) \in Nat
            /\ filled[u] <= Len(heard[u])
        BY <1>1, <1>5 DEF TypeOK
      <3>2. filled[u] <= Len(heard'[u])
        BY <1>5, <3>1
      <3> QED
        BY <1>1, <1>5, <3>2 DEF TypeOK
    <2> QED
      BY <1>1, <1>2, <1>5, <2>1, <2>2 DEF TypeOK
  <1>9. AllSent'
    <2>1. \A v \in Users : known'[v] \subseteq stored
      BY <1>2 DEF ChatInv, AllSent
    <2>2. \A v \in Users : Heard(v)' \subseteq Sent
      <3>1. Heard(u)' \subseteq Sent
        BY <1>3, <1>7 DEF ChatInv, AllSent
      <3> QED
        BY <1>6, <3>1 DEF ChatInv, AllSent
    <2>3. Sent' = Sent
      BY <1>2 DEF Sent
    <2> QED
      BY <1>2, <1>4, <2>1, <2>2, <2>3 DEF ChatInv, AllSent
  <1>10. InLine'
    <2>1. \A v \in Users : Grows(queue[v])' /\ InTurn(tasks[v])'
      BY <1>2 DEF ChatInv, InLine, Grows, InTurn
    <2>2. ASSUME NEW m \in Heard(u)', NEW n \in Asked(u), sender[m] = u
          PROVE  m < n
      <3>1. m \in Heard(u) \/ m \in stored \/ m \in Queued(u)
        BY <1>7 DEF S
      <3> QED
        BY <2>2, <3>1 DEF ChatInv, InLine
    <2> QED
      BY <1>2, <1>4, <1>6, <2>1, <2>2 DEF ChatInv, InLine
  <1>11. KnownIsPrefix'
    BY <1>2 DEF ChatInv, KnownIsPrefix
  <1>12. ListenersTell'
    <2>1. \A v \in Users : v \notin open' => Listen \notin Elements(tasks[v])'
      BY <1>2 DEF ChatInv, ListenersTell
    <2>2. \A v \in Users : ~Listening(v)' => heard'[v] = << >>
      BY <1>4, <1>5 DEF ChatInv, ListenersTell
    <2>3. \A v \in Users : Listening(v)' => Local(v)' \subseteq Heard(v)'
      BY <1>4, <1>6, <1>7 DEF ChatInv, ListenersTell
    <2>4. ASSUME NEW v \in Users, NEW m \in Heard(v)'
          PROVE  m \in Local(v)' \/ Lost(v, m)'
      <3>1. Lost(v, m) => Lost(v, m)'
        BY <1>2, <1>4 DEF Lost, Gone
      <3>2. CASE v = u
        BY <1>3, <1>4, <1>7, <3>1, <3>2 DEF ChatInv, ListenersTell
      <3>3. CASE v # u
        BY <1>4, <1>6, <3>1, <3>3 DEF ChatInv, ListenersTell
      <3> QED
        BY <3>2, <3>3
    <2> QED
      BY <2>1, <2>2, <2>3, <2>4 DEF ListenersTell
  <1>13. RepliesClosed'
    <2>1. Closed(stored, stored)'
      BY <1>2, <1>4 DEF ChatInv, RepliesClosed, Closed, Gone
    <2>2. \A m \in S \cup Asked(u) : \A n \in saw[m] : n \in S \/ Gone(n)
      <3>1. Closed(stored, stored) /\ Closed(Local(u) \cup Asked(u), Local(u))
        BY DEF ChatInv, RepliesClosed
      <3>2. \A m \in stored : \A n \in saw[m] : n \in S \/ Gone(n)
        BY <3>1 DEF Closed, S
      <3>3. \A m \in Local(u) \cup Asked(u) : \A n \in saw[m] : n \in S \/ Gone(n)
        BY <1>3, <3>1 DEF Closed
      <3> QED
        BY <3>2, <3>3 DEF S, Local, Queued
    <2>3. \A v \in Users : Closed(Local(v) \cup Asked(v), Local(v))'
      <3> SUFFICES ASSUME NEW v \in Users
                   PROVE  \A m \in Local(v)' \cup Asked(v) : \A n \in saw[m] :
                            n \in Local(v)' \/ Gone(n)
        BY <1>2, <1>4 DEF Closed, Gone
      <3>1. CASE v = u
        BY <1>4, <2>2, <3>1
      <3>2. CASE v # u
        BY <1>4, <3>2 DEF ChatInv, RepliesClosed, Closed
      <3> QED
        BY <3>1, <3>2
    <2>4. \A v \in Users : Closed(Heard(v), Heard(v))'
      <3> SUFFICES ASSUME NEW v \in Users
                   PROVE  \A m \in Heard(v)' : \A n \in saw[m] : n \in Heard(v)' \/ Gone(n)
        BY <1>2, <1>4 DEF Closed, Gone
      <3>1. \A m \in Heard(v) : \A n \in saw[m] : n \in Heard(v) \/ Gone(n)
        BY DEF ChatInv, RepliesClosed, Closed
      <3>2. CASE v = u
        BY <1>7, <2>2, <3>1, <3>2
      <3>3. CASE v # u
        BY <1>6, <3>1, <3>3
      <3> QED
        BY <3>2, <3>3
    <2> QED
      BY <2>1, <2>3, <2>4 DEF RepliesClosed
  <1>14. LogsInOrder'
    BY <1>2, <1>5, ToldLogs DEF ChatInv
  <1> QED
    BY <1>8, <1>9, <1>10, <1>11, <1>12, <1>13, <1>14 DEF ChatInv

(* The oldest write of a queue leaves it.                                  *)
LEMMA QueueTail ==
    ASSUME ChatInv, NEW u \in Users, queue[u] # << >>,
           queue' = [queue EXCEPT ![u] = Tail(@)]
    PROVE  /\ queue' \in [Users -> Seq(Messages)]
           /\ \A v \in Users : v # u => Queued(v)' = Queued(v)
           /\ Queued(u) = {Head(queue[u])} \cup Queued(u)'
           /\ \A v \in Users : Grows(queue[v])'
           /\ Head(queue[u]) \in Sent /\ Head(queue[u]) > Bids /\ Head(queue[u]) \in Int
           /\ Head(queue[u]) \in Messages
           /\ sender[Head(queue[u])] = u
           /\ Head(queue[u]) \notin stored
           /\ \A n \in Queued(u)' \cup Asked(u) : Head(queue[u]) < n
           /\ \A v \in Users : Head(queue[u]) \notin Queued(v)' \cup Asked(v)
  <1>1. TypeOK /\ queue[u] \in Seq(Messages) /\ Grows(queue[u]) /\ Messages \subseteq Int
    BY PhoneTypes DEF ChatInv, InLine, Messages
  <1>2. PICK h, q : h = Head(queue[u]) /\ q = Tail(queue[u])
    OBVIOUS
  <1>3. /\ q \in Seq(Messages) /\ Grows(q) /\ Queued(u) = {h} \cup Elements(q)
        /\ \A m \in Elements(q) : h < m
    BY <1>1, <1>2, HeadTail, TailGrows DEF Queued
  <1>4. /\ queue' \in [Users -> Seq(Messages)] /\ queue'[u] = q
        /\ \A v \in Users : v # u => queue'[v] = queue[v]
    BY <1>1, <1>2, <1>3 DEF TypeOK
  <1>5. /\ Queued(u)' = Elements(q)
        /\ \A v \in Users : v # u => Queued(v)' = Queued(v)
    BY <1>4 DEF Queued
  <1>6. \A v \in Users : Grows(queue[v])'
    BY <1>3, <1>4 DEF ChatInv, InLine, Grows
  <1>7. h \in Queued(u) /\ h \in Sent /\ h > Bids /\ sender[h] = u /\ h \in Messages /\ h \in Int
    BY <1>1, <1>3, SentTypes DEF ChatInv, AllSent
  <1>8. h \notin stored /\ \A n \in Asked(u) : h < n
    BY <1>7 DEF ChatInv, InLine
  <1>9. \A v \in Users : h \notin Queued(v)' \cup Asked(v)
    <2>1. h \notin Queued(u)' \cup Asked(u)
      BY <1>3, <1>5, <1>7, <1>8
    <2>2. \A v \in Users : v # u => h \notin Queued(v) \cup Asked(v)
      BY <1>7 DEF ChatInv, AllSent
    <2> QED
      BY <1>5, <2>1, <2>2
  <1> QED
    BY <1>2, <1>3, <1>4, <1>5, <1>6, <1>7, <1>8, <1>9

LEMMA RefuseKeeps ==
    ASSUME ChatInv, NEW u \in Users, Refuse(u)
    PROVE  ChatInv'
  <1>1. TypeOK
    BY DEF ChatInv
  <1>2. /\ queue[u] # << >> /\ queue' = [queue EXCEPT ![u] = Tail(@)]
        /\ UNCHANGED <<skew, sender, stored, known, tasks, open, heard, filled, rows, saw>>
    BY DEF Refuse
  <1>3. PICK h : h = Head(queue[u])
    OBVIOUS
  <1>4. /\ queue' \in [Users -> Seq(Messages)]
        /\ \A v \in Users : v # u => Queued(v)' = Queued(v)
        /\ Queued(u) = {h} \cup Queued(u)'
        /\ \A v \in Users : Grows(queue[v])'
        /\ h \in Sent /\ sender[h] = u /\ h \notin stored
        /\ \A v \in Users : h \notin Queued(v)' \cup Asked(v)
    BY <1>2, <1>3, QueueTail
  <1>5. \A v \in Users : /\ Asked(v)' = Asked(v) /\ Heard(v)' = Heard(v)
                         /\ Queued(v)' \subseteq Queued(v)
                         /\ Local(v)' \subseteq Local(v)
                         /\ Local(v) \subseteq Local(v)' \cup {h}
                         /\ v # u => Local(v)' = Local(v)
                         /\ Listening(v)' = Listening(v)
    BY <1>2, <1>4 DEF Asked, Heard, Local, Queued, Listening
  <1>6. Live' \subseteq Live /\ Gone(h)'
    <2>1. Live' \subseteq Live
      BY <1>2, <1>5, LiveShrinks
    <2>2. h \notin Live'
      BY <1>2, <1>4, <1>5 DEF Live
    <2> QED
      BY <2>1, <2>2 DEF Gone
  <1>7. \A n : Gone(n) => Gone(n)'
    BY <1>6 DEF Gone
  <1>8. TypeOK'
    BY <1>1, <1>2, <1>4 DEF TypeOK
  <1>9. AllSent'
    BY <1>2, <1>5 DEF ChatInv, AllSent, Sent
  <1>10. InLine'
    <2>1. \A v \in Users : InTurn(tasks[v])'
      BY <1>2 DEF ChatInv, InLine, InTurn
    <2> QED
      BY <1>2, <1>4, <1>5, <2>1 DEF ChatInv, InLine
  <1>11. KnownIsPrefix'
    BY <1>2 DEF ChatInv, KnownIsPrefix
  <1>12. ListenersTell'
    <2>1. ASSUME NEW v \in Users, NEW m \in Heard(v)'
          PROVE  m \in Local(v)' \/ Lost(v, m)'
      <3>1. m \in Local(v) \/ Lost(v, m)
        BY <1>5 DEF ChatInv, ListenersTell
      <3>2. Lost(v, m) => Lost(v, m)'
        BY <1>2, <1>7 DEF Lost
      <3>3. CASE m \in Local(v) /\ v # u
        BY <1>5, <3>3
      <3>4. CASE m \in Local(v) /\ v = u
        BY <1>2, <1>4, <1>5, <1>6, <3>4 DEF Lost
      <3> QED
        BY <3>1, <3>2, <3>3, <3>4
    <2> QED
      BY <1>2, <1>5, <2>1 DEF ChatInv, ListenersTell
  <1>13. RepliesClosed'
    <2>1. Closed(stored, stored)'
      BY <1>2, <1>7 DEF ChatInv, RepliesClosed, Closed
    <2>2. \A v \in Users : Closed(Local(v) \cup Asked(v), Local(v))'
      <3> SUFFICES ASSUME NEW v \in Users, NEW m \in Local(v)' \cup Asked(v)', NEW n \in saw[m]
                   PROVE  n \in Local(v)' \/ Gone(n)'
        BY <1>2 DEF Closed
      <3>1. n \in Local(v) \/ Gone(n)
        BY <1>5 DEF ChatInv, RepliesClosed, Closed
      <3> QED
        BY <1>5, <1>6, <1>7, <3>1
    <2>3. \A v \in Users : Closed(Heard(v), Heard(v))'
      BY <1>2, <1>5, <1>7 DEF ChatInv, RepliesClosed, Closed
    <2> QED
      BY <2>1, <2>2, <2>3 DEF RepliesClosed
  <1>14. LogsInOrder'
    BY <1>2, LogStays DEF ChatInv, LogsInOrder
  <1> QED
    BY <1>8, <1>9, <1>10, <1>11, <1>12, <1>13, <1>14 DEF ChatInv

LEMMA AcknowledgeKeeps ==
    ASSUME ChatInv, NEW u \in Users, Acknowledge(u)
    PROVE  ChatInv'
  <1>1. TypeOK
    BY DEF ChatInv
  <1>2. PICK h : h = Head(queue[u])
    OBVIOUS
  <1>3. /\ queue[u] # << >> /\ queue' = [queue EXCEPT ![u] = Tail(@)]
        /\ stored' = stored \cup {h}
        /\ known' = [known EXCEPT ![u] = known[u] \cup {h}]
        /\ known'[u] = known[u] \cup {h}
        /\ \A v \in Users : v # u => known'[v] = known[v]
        /\ UNCHANGED <<skew, sender, tasks, open, heard, filled, rows, saw>>
    BY <1>1, <1>2 DEF Acknowledge, TypeOK
  <1>4. /\ queue' \in [Users -> Seq(Messages)]
        /\ \A v \in Users : v # u => Queued(v)' = Queued(v)
        /\ Queued(u) = {h} \cup Queued(u)'
        /\ \A v \in Users : Grows(queue[v])'
        /\ h \in Sent /\ sender[h] = u /\ h \notin stored /\ h > Bids
        /\ h \in Messages /\ h \in Int
        /\ \A n \in Queued(u)' \cup Asked(u) : h < n
    BY <1>2, <1>3, QueueTail
  <1>5. \A v \in Users : /\ Asked(v)' = Asked(v) /\ Heard(v)' = Heard(v)
                         /\ Queued(v)' \subseteq Queued(v)
                         /\ Local(v)' = Local(v)
                         /\ Listening(v)' = Listening(v)
    BY <1>3, <1>4 DEF Asked, Heard, Local, Queued, Listening
  <1>6. Live' = Live
    <2>1. h \in Live
      BY <1>4 DEF Live
    <2>2. Live' \subseteq Live
      BY <1>3, <1>5, <2>1 DEF Live
    <2>3. Live \subseteq Live'
      BY <1>3, <1>4, <1>5 DEF Live
    <2> QED
      BY <2>2, <2>3
  <1>7. \A n : Gone(n)' <=> Gone(n)
    BY <1>6 DEF Gone
  <1>8. TypeOK'
    <2>1. stored' \in SUBSET Messages /\ known' \in [Users -> SUBSET Messages]
      <3>1. stored \in SUBSET Messages /\ known \in [Users -> SUBSET Messages]
        BY <1>1 DEF TypeOK
      <3> QED
        BY <1>3, <1>4, <3>1
    <2> QED
      BY <1>1, <1>3, <1>4, <2>1 DEF TypeOK
  <1>9. AllSent'
    <2>1. 1..Bids \subseteq stored' /\ stored' \subseteq Sent /\ Sent' = Sent
      BY <1>3, <1>4 DEF ChatInv, AllSent, Sent
    <2>2. \A v \in Users : known'[v] \subseteq stored'
      BY <1>3 DEF ChatInv, AllSent
    <2> QED
      BY <1>3, <1>5, <2>1, <2>2 DEF ChatInv, AllSent
  <1>10. InLine'
    <2>1. \A v \in Users : InTurn(tasks[v])'
      BY <1>3 DEF ChatInv, InLine, InTurn
    <2>2. ASSUME NEW v \in Users, NEW m \in stored', NEW n \in Queued(v)' \cup Asked(v),
                 sender[m] = v
          PROVE  m < n
      <3>1. CASE m \in stored
        BY <1>5, <2>2, <3>1 DEF ChatInv, InLine
      <3>2. CASE m = h
        BY <1>4, <2>2, <3>2
      <3> QED
        BY <1>3, <3>1, <3>2
    <2> QED
      BY <1>3, <1>4, <1>5, <2>1, <2>2 DEF ChatInv, InLine
  <1>11. KnownIsPrefix'
    <2> SUFFICES ASSUME NEW v \in Users, NEW n \in stored' \ known'[v]
                 PROVE  /\ sender[n] = v => n <= Bids
                        /\ \A m \in known'[v] : sender[m] = sender[n] /\ sender[m] # v => m < n
      BY <1>3 DEF KnownIsPrefix
    <2>1. CASE v = u
      BY <1>3, <1>4, <2>1 DEF ChatInv, KnownIsPrefix
    <2>2. CASE v # u /\ n # h
      BY <1>3, <2>2 DEF ChatInv, KnownIsPrefix
    <2>3. CASE v # u /\ n = h
      <3>1. \A m \in stored : sender[m] = u => m < h
        BY <1>4 DEF ChatInv, InLine
      <3> QED
        BY <1>3, <1>4, <2>3, <3>1 DEF ChatInv, AllSent
    <2> QED
      BY <2>1, <2>2, <2>3
  <1>12. ListenersTell'
    <2>1. \A v, m : Lost(v, m)' <=> Lost(v, m)
      BY <1>3, <1>7 DEF Lost
    <2> QED
      BY <1>3, <1>5, <2>1 DEF ChatInv, ListenersTell
  <1>13. RepliesClosed'
    <2>1. Closed(stored, stored)'
      <3> SUFFICES ASSUME NEW m \in stored', NEW n \in saw[m]
                   PROVE  n \in stored' \/ Gone(n)'
        BY <1>3 DEF Closed
      <3>1. CASE m \in stored
        BY <1>3, <1>7, <3>1 DEF ChatInv, RepliesClosed, Closed
      <3>2. CASE m = h
        <4>1. n \in Local(u) \/ Gone(n)
          BY <1>4, <3>2 DEF ChatInv, RepliesClosed, Closed, Local, Queued
        <4>2. n \in Int /\ n < h
          BY <1>4, <3>2 DEF ChatInv, AllSent
        <4>3. n \notin Queued(u)
          BY <1>4, <4>2
        <4>4. n \in stored \/ Gone(n)
          BY <4>1, <4>3 DEF Local, Queued, ChatInv, AllSent
        <4> QED
          BY <1>3, <1>7, <4>4
      <3> QED
        BY <1>3, <3>1, <3>2
    <2>2. \A v \in Users : Closed(Local(v) \cup Asked(v), Local(v))'
      BY <1>3, <1>5, <1>7 DEF ChatInv, RepliesClosed, Closed
    <2>3. \A v \in Users : Closed(Heard(v), Heard(v))'
      BY <1>3, <1>5, <1>7 DEF ChatInv, RepliesClosed, Closed
    <2> QED
      BY <2>1, <2>2, <2>3 DEF RepliesClosed
  <1>14. LogsInOrder'
    BY <1>3, LogStays DEF ChatInv, LogsInOrder
  <1> QED
    BY <1>8, <1>9, <1>10, <1>11, <1>12, <1>13, <1>14 DEF ChatInv

LEMMA WriteMessageKeeps ==
    ASSUME ChatInv, NEW u \in Users, WriteMessage(u)
    PROVE  ChatInv'
  <1>1. TypeOK /\ Messages \subseteq Int
    BY DEF ChatInv, Messages
  <1>2. /\ tasks[u] \in Seq(Messages \cup {Listen}) /\ tasks[u] # << >> /\ InTurn(tasks[u])
        /\ queue[u] \in Seq(Messages) /\ Grows(queue[u])
        /\ Head(tasks[u]) # Listen
    BY <1>1, PhoneTypes DEF ChatInv, InLine, WriteMessage
  <1>3. PICK m, t, q : m = Head(tasks[u]) /\ t = Tail(tasks[u]) /\ q = Append(queue[u], m)
    OBVIOUS
  <1>4. /\ t \in Seq(Messages \cup {Listen}) /\ InTurn(t)
        /\ m \in Messages \cup {Listen} /\ m # Listen
        /\ Elements(tasks[u]) = {m} \cup Elements(t)
        /\ m \notin Elements(t)
        /\ \A n \in Elements(t) \ {Listen} : m < n
    BY <1>2, <1>3, HeadTail, TailInTurn
  <1>5. m \in Asked(u) /\ m \in Messages /\ m \in Sent /\ m > Bids /\ sender[m] = u /\ m \in Int
    BY <1>1, <1>4 DEF Asked, ChatInv, AllSent
  <1>6. /\ q \in Seq(Messages)
        /\ Elements(q) = Queued(u) \cup {m}
        /\ Grows(q)
    <2>1. /\ q \in Seq(Messages)
          /\ Elements(q) = Elements(queue[u]) \cup {m}
          /\ \A i, k \in DOMAIN q : i < k =>
                \/ i \in DOMAIN queue[u] /\ k \in DOMAIN queue[u]
                   /\ q[i] = queue[u][i] /\ q[k] = queue[u][k]
                \/ q[i] \in Elements(queue[u]) /\ q[k] = m
      <3>1. PICK b : b = queue[u] /\ b \in Seq(Messages)
        BY <1>2
      <3>2. /\ Append(b, m) \in Seq(Messages)
            /\ Elements(Append(b, m)) = Elements(b) \cup {m}
            /\ \A i, k \in DOMAIN Append(b, m) : i < k =>
                  \/ /\ i \in DOMAIN b /\ k \in DOMAIN b
                     /\ Append(b, m)[i] = b[i] /\ Append(b, m)[k] = b[k]
                  \/ Append(b, m)[i] \in Elements(b) /\ Append(b, m)[k] = m
        BY <1>5, <3>1, Appended
      <3>3. q = Append(b, m)
        BY <1>3, <3>1
      <3> QED
        BY <3>1, <3>2, <3>3
    <2>2. \A n \in Elements(queue[u]) : n < m
      BY <1>5 DEF ChatInv, InLine, Queued
    <2> QED
      BY <1>2, <2>1, <2>2 DEF Grows, Queued
  <1>7. /\ tasks' = [tasks EXCEPT ![u] = t] /\ tasks'[u] = t
        /\ \A v \in Users : v # u => tasks'[v] = tasks[v]
        /\ queue' = [queue EXCEPT ![u] = q] /\ queue'[u] = q
        /\ \A v \in Users : v # u => queue'[v] = queue[v]
        /\ UNCHANGED <<skew, sender, stored, known, open, filled, rows, saw>>
    BY <1>1, <1>3 DEF WriteMessage, Done, QueuedLast, TypeOK
  <1>8. /\ Queued(u)' = Queued(u) \cup {m}
        /\ Asked(u) = Asked(u)' \cup {m}
        /\ \A n \in Asked(u)' : m < n
        /\ Local(u)' = Local(u) \cup {m}
        /\ \A v \in Users : v # u =>
              Queued(v)' = Queued(v) /\ Asked(v)' = Asked(v) /\ Local(v)' = Local(v)
        /\ \A v \in Users : Listening(v)' = Listening(v)
    BY <1>4, <1>6, <1>7 DEF Queued, Asked, Local, Listening
  <1>9. Live' = Live
    <2>1. \A v \in Users : Queued(v)' \cup Asked(v)' = Queued(v) \cup Asked(v)
      BY <1>8
    <2> QED
      BY <1>7, <2>1 DEF Live
  <1>10. \A n : Gone(n)' <=> Gone(n)
    BY <1>9 DEF Gone
  <1>11. /\ heard' \in [Users -> Seq(Messages)]
         /\ \A v \in Users : v # u => heard'[v] = heard[v]
         /\ Len(heard[u]) <= Len(heard'[u])
         /\ LogInOrder(u, heard'[u])
         /\ Listening(u) => Elements(heard'[u]) = Heard(u) \cup (Local(u) \cup {m})
         /\ ~Listening(u) => heard'[u] = heard[u]
    <2>1. CASE ~Listening(u)
      <3>1. heard' = heard
        BY <2>1 DEF WriteMessage
      <3>2. Len(heard[u]) \in Nat
        BY <1>1, PhoneTypes
      <3> QED
        BY <1>1, <2>1, <3>1, <3>2 DEF TypeOK, ChatInv, LogsInOrder
    <2>2. CASE Listening(u)
      <3>1. Tell(u, Local(u) \cup {m}) /\ LogInOrder(u, heard[u])
        BY <1>3, <2>2 DEF WriteMessage, ChatInv, LogsInOrder
      <3>2. Local(u) \cup {m} \in SUBSET Sent
        BY <1>5 DEF ChatInv, AllSent, Local, Queued
      <3>3. ASSUME NEW l \in Heard(u), NEW n \in (Local(u) \cup {m}) \ Heard(u)
            PROVE  /\ sender[l] = sender[n] => l < n \/ (sender[n] = u /\ n <= Bids)
                   /\ n \notin saw[l]
        <4>1. n = m
          BY <2>2, <3>3 DEF ChatInv, ListenersTell
        <4>2. sender[l] = u => l < m
          BY <1>5 DEF ChatInv, InLine
        <4>3. m \in Live
          BY <1>5 DEF Live
        <4>4. n \notin saw[l]
          BY <3>3, <4>1, <4>3 DEF ChatInv, RepliesClosed, Closed, Gone
        <4> QED
          BY <1>5, <4>1, <4>2, <4>4
      <3> QED
        BY <1>1, <2>2, <3>1, <3>2, <3>3, TellResult
    <2> QED
      BY <2>1, <2>2
  <1>12. \A v \in Users : v # u => Heard(v)' = Heard(v)
    BY <1>11 DEF Heard
  <1>13. /\ Listening(u) => Heard(u)' = Heard(u) \cup (Local(u) \cup {m})
         /\ ~Listening(u) => Heard(u)' = Heard(u) /\ Heard(u) = {}
    BY <1>11, NoElements DEF Heard, ChatInv, ListenersTell
  <1>14. TypeOK'
    <2>1. tasks' \in [Users -> Seq(Messages \cup {Listen})] /\ queue' \in [Users -> Seq(Messages)]
      BY <1>1, <1>4, <1>6, <1>7 DEF TypeOK
    <2>2. \A v \in Users : filled[v] <= Len(heard'[v])
      <3>1. filled[u] \in Nat /\ Len(heard[u]) \in Nat /\ Len(heard'[u]) \in Nat
            /\ filled[u] <= Len(heard[u])
        BY <1>1, <1>11 DEF TypeOK
      <3>2. filled[u] <= Len(heard'[u])
        BY <1>11, <3>1
      <3> QED
        BY <1>1, <1>11, <3>2 DEF TypeOK
    <2> QED
      BY <1>1, <1>7, <1>11, <2>1, <2>2 DEF TypeOK
  <1>15. AllSent'
    <2>1. \A v \in Users : Heard(v)' \subseteq Sent
      <3>1. Local(u) \cup {m} \subseteq Sent /\ Heard(u) \subseteq Sent
        BY <1>5 DEF ChatInv, AllSent, Local, Queued
      <3>2. Heard(u)' \subseteq Sent
        BY <1>13, <3>1
      <3> QED
        BY <1>12, <3>2 DEF ChatInv, AllSent
    <2>2. Sent' = Sent
      BY <1>7 DEF Sent
    <2>3. \A v \in Users : Queued(v)' \cup Asked(v)' \subseteq Queued(v) \cup Asked(v)
      BY <1>8
    <2> QED
      BY <1>7, <2>1, <2>2, <2>3 DEF ChatInv, AllSent
  <1>16. InLine'
    <2>1. \A v \in Users : Grows(queue[v])' /\ InTurn(tasks[v])'
      BY <1>4, <1>6, <1>7 DEF ChatInv, InLine, Grows, InTurn
    <2>2. \A v \in Users : \A l \in Queued(v)', n \in Asked(v)' : l < n
      <3>1. \A l \in Queued(u)', n \in Asked(u)' : l < n
        BY <1>8 DEF ChatInv, InLine
      <3> QED
        BY <1>8, <3>1 DEF ChatInv, InLine
    <2>3. \A v \in Users : \A l \in stored, n \in Queued(v)' \cup Asked(v)' : sender[l] = v => l < n
      <3>1. \A v \in Users : Queued(v)' \cup Asked(v)' \subseteq Queued(v) \cup Asked(v)
        BY <1>8
      <3> QED
        BY <3>1 DEF ChatInv, InLine
    <2>4. \A v \in Users : \A l \in Heard(v)', n \in Asked(v)' : sender[l] = v => l < n
      <3>1. ASSUME NEW l \in Heard(u)', NEW n \in Asked(u)', sender[l] = u
            PROVE  l < n
        <4>1. n \in Asked(u)
          BY <1>8
        <4>2. l \in Heard(u) \/ l = m \/ l \in stored \/ l \in Queued(u)
          BY <1>13 DEF Local, Queued, ChatInv, AllSent
        <4> QED
          BY <1>8, <3>1, <4>1, <4>2 DEF ChatInv, InLine
      <3> QED
        BY <1>8, <1>12, <3>1 DEF ChatInv, InLine
    <2> QED
      BY <1>7, <2>1, <2>2, <2>3, <2>4 DEF InLine
  <1>17. KnownIsPrefix'
    BY <1>7 DEF ChatInv, KnownIsPrefix
  <1>18. ListenersTell'
    <2>1. \A v \in Users : v \notin open' => Listen \notin Elements(tasks[v])'
      BY <1>4, <1>7 DEF ChatInv, ListenersTell
    <2>2. \A v \in Users : ~Listening(v)' => heard'[v] = << >>
      BY <1>8, <1>11 DEF ChatInv, ListenersTell
    <2>3. \A v \in Users : Listening(v)' => Local(v)' \subseteq Heard(v)'
      BY <1>8, <1>12, <1>13 DEF ChatInv, ListenersTell
    <2>4. ASSUME NEW v \in Users, NEW l \in Heard(v)'
          PROVE  l \in Local(v)' \/ Lost(v, l)'
      <3>1. Lost(v, l) => Lost(v, l)'
        BY <1>7, <1>10 DEF Lost
      <3>2. CASE v = u
        BY <1>8, <1>13, <3>1, <3>2 DEF ChatInv, ListenersTell
      <3>3. CASE v # u
        BY <1>8, <1>12, <3>1, <3>3 DEF ChatInv, ListenersTell
      <3> QED
        BY <3>2, <3>3
    <2> QED
      BY <2>1, <2>2, <2>3, <2>4 DEF ListenersTell
  <1>19. RepliesClosed'
    <2>1. Closed(stored, stored)'
      BY <1>7, <1>10 DEF ChatInv, RepliesClosed, Closed
    <2>2. \A l \in Local(u) \cup Asked(u) : \A n \in saw[l] : n \in Local(u) \/ Gone(n)
      BY DEF ChatInv, RepliesClosed, Closed
    <2>3. \A v \in Users : Closed(Local(v) \cup Asked(v), Local(v))'
      <3> SUFFICES ASSUME NEW v \in Users
                   PROVE  \A l \in Local(v)' \cup Asked(v)' : \A n \in saw[l] :
                            n \in Local(v)' \/ Gone(n)
        BY <1>7, <1>10 DEF Closed
      <3>1. CASE v = u
        BY <1>8, <2>2, <3>1
      <3>2. CASE v # u
        BY <1>8, <3>2 DEF ChatInv, RepliesClosed, Closed
      <3> QED
        BY <3>1, <3>2
    <2>4. \A v \in Users : Closed(Heard(v), Heard(v))'
      <3> SUFFICES ASSUME NEW v \in Users
                   PROVE  \A l \in Heard(v)' : \A n \in saw[l] : n \in Heard(v)' \/ Gone(n)
        BY <1>7, <1>10 DEF Closed
      <3>1. \A l \in Heard(v) : \A n \in saw[l] : n \in Heard(v) \/ Gone(n)
        BY DEF ChatInv, RepliesClosed, Closed
      <3>2. CASE v = u
        BY <1>5, <1>13, <2>2, <3>1, <3>2
      <3>3. CASE v # u
        BY <1>12, <3>1, <3>3
      <3> QED
        BY <3>2, <3>3
    <2> QED
      BY <2>1, <2>3, <2>4 DEF RepliesClosed
  <1>20. LogsInOrder'
    BY <1>7, <1>11, ToldLogs DEF ChatInv
  <1> QED
    BY <1>14, <1>15, <1>16, <1>17, <1>18, <1>19, <1>20 DEF ChatInv

-----------------------------------------------------------------------------
(* Sending.                                                                *)

LEMMA NewMessage ==
    ASSUME ChatInv, NEW u \in Users, Send(u)
    PROVE  LET m == Len(sender) + 1
           IN  /\ m \in Messages /\ m \in Int /\ m \notin Sent /\ m > Bids
               /\ \A n \in Sent : n < m
               /\ Sent' = Sent \cup {m}
               /\ \A n \in Sent : sender'[n] = sender[n] /\ saw'[n] = saw[n]
               /\ sender'[m] = u /\ saw'[m] = Shown(u)
               /\ Shown(u) \subseteq Heard(u)
               /\ sender' \in Seq(Users) /\ Len(sender') = m /\ m \in Bids..MaxMessages
               /\ saw' \in [1..m -> SUBSET Messages]
               /\ skew' = skew /\ stored' = stored /\ known' = known
  <1>1. PICK n \in Nat : n = Len(sender) /\ Sent = 1..n /\ Bids <= n /\ Bids \in Nat
    BY SentTypes DEF ChatInv, Sent
  <1>2. PICK m : m = n + 1
    OBVIOUS
  <1>3. /\ m \in Messages /\ sender' = Append(sender, u) /\ saw' = Append(saw, Shown(u))
        /\ skew' = skew /\ stored' = stored /\ known' = known
    BY <1>1, <1>2 DEF Send
  <1>4. /\ sender \in Seq(Users) /\ saw \in [1..n -> SUBSET Messages]
    BY <1>1 DEF ChatInv, TypeOK
  <1>5. saw \in Seq(SUBSET Messages) /\ Len(saw) = n
    BY <1>4
  <1>6. Shown(u) \subseteq Heard(u) /\ Shown(u) \in SUBSET Messages
    <2>1. heard[u] \in Seq(Messages) /\ rows[u] \in Nat /\ rows[u] <= Len(heard[u])
      <3>1. /\ heard[u] \in Seq(Messages) /\ filled[u] \in Nat /\ rows[u] \in Nat
            /\ rows[u] <= filled[u] /\ filled[u] <= Len(heard[u])
        BY PhoneTypes DEF ChatInv, TypeOK
      <3> QED
        BY <3>1
    <2>2. \A i \in 1..rows[u] : i \in 1..Len(heard[u]) /\ heard[u][i] \in Messages
      BY <2>1
    <2> QED
      BY <2>1, <2>2 DEF Shown, Heard, Elements
  <1>7. /\ sender' \in Seq(Users) /\ Len(sender') = m /\ sender'[m] = u
        /\ \A i \in 1..n : sender'[i] = sender[i]
    BY <1>1, <1>2, <1>3, <1>4
  <1>8. /\ saw' \in [1..m -> SUBSET Messages] /\ saw'[m] = Shown(u)
        /\ \A i \in 1..n : saw'[i] = saw[i]
    <2>1. PICK x \in SUBSET Messages : x = Shown(u)
      BY <1>6
    <2>2. PICK t : t = Append(saw, x)
      OBVIOUS
    <2>3. /\ t \in Seq(SUBSET Messages) /\ Len(t) = m
          /\ t[m] = x /\ \A i \in 1..n : t[i] = saw[i]
      BY <1>2, <1>5, <2>2
    <2>4. t \in [1..m -> SUBSET Messages]
      BY <2>3
    <2> QED
      BY <1>3, <2>1, <2>2, <2>3, <2>4
  <1>9. m \in Int /\ m \notin 1..n /\ m > Bids /\ \A i \in 1..n : i < m
    BY <1>1, <1>2
  <1>10. m \in Bids..MaxMessages
    BY <1>1, <1>3, <1>9, SentTypes DEF ChatInv, Messages
  <1>11. Sent' = 1..n \cup {m}
    BY <1>2, <1>7 DEF Sent
  <1> QED
    BY <1>1, <1>2, <1>3, <1>6, <1>7, <1>8, <1>9, <1>10, <1>11

(* Whether or not the app dies of it.                                      *)
LEMMA SendKeepsParts ==
    ASSUME ChatInv, NEW u \in Users, Send(u), NEW m, m = Len(sender) + 1,
           \A v \in Users : v # u =>
               queue'[v] = queue[v] /\ tasks'[v] = tasks[v] /\ heard'[v] = heard[v],
           Queued(u) \subseteq Queued(u)',
           Queued(u)' \subseteq Queued(u) \cup Asked(u) \cup {m},
           Asked(u)' \subseteq Asked(u) \cup {m},
           \A l \in Queued(u)', n \in Asked(u)' : l < n,
           heard'[u] = heard[u] \/ heard'[u] = << >>
    PROVE  /\ AllSent' /\ KnownIsPrefix' /\ RepliesClosed' /\ LogsInOrder'
           /\ \A v \in Users :
                /\ \A l \in Heard(v)' : l \in Local(v)' \/ Lost(v, l)'
                /\ \A l \in Queued(v)', n \in Asked(v)' : l < n
                /\ \A l \in stored', n \in Queued(v)' \cup Asked(v)' : sender'[l] = v => l < n
                /\ \A l \in Heard(v)', n \in Asked(v)' : sender'[l] = v => l < n
  <1>1. /\ m \in Messages /\ m \in Int /\ m \notin Sent /\ m > Bids
        /\ \A n \in Sent : n < m
        /\ Sent' = Sent \cup {m}
        /\ \A n \in Sent : sender'[n] = sender[n] /\ saw'[n] = saw[n]
        /\ sender'[m] = u /\ saw'[m] = Shown(u)
        /\ Shown(u) \subseteq Heard(u)
        /\ skew' = skew /\ stored' = stored /\ known' = known
    BY NewMessage
  <1>2. \A v \in Users : v # u =>
          Queued(v)' = Queued(v) /\ Asked(v)' = Asked(v) /\ Local(v)' = Local(v)
    BY <1>1 DEF Queued, Asked, Local
  <1>3. \A v \in Users : /\ Heard(v)' \subseteq Heard(v)
                         /\ Heard(v)' = Heard(v) \/ Heard(v)' = {}
    BY NoElements DEF Heard
  <1>4. /\ \A v \in Users : Local(v) \subseteq Local(v)' /\ Local(v) \subseteq Sent
                             /\ Asked(v) \subseteq Sent /\ Heard(v) \subseteq Sent
        /\ Local(u)' \subseteq Local(u) \cup Asked(u) \cup {m}
        /\ stored \subseteq Sent
    BY <1>1, <1>2 DEF Local, Queued, ChatInv, AllSent
  <1>5. Live' \subseteq Live \cup {Len(sender) + 1}
    BY <1>1, <1>2 DEF Live
  <1>6. ASSUME NEW n \in Sent, Gone(n)
        PROVE  Gone(n)'
    BY <1>5, <1>6, GoneStays DEF ChatInv
  <1>7. \A n \in Sent : saw[n] \subseteq Sent
    BY SentTypes DEF ChatInv, AllSent, Sent
  <1>8. AllSent'
    <2>1. \A v \in Users : Heard(v)' \subseteq Sent'
      BY <1>1, <1>3, <1>4
    <2>2. ASSUME NEW v \in Users, NEW n \in Queued(v)' \cup Asked(v)'
          PROVE  n \in Sent' /\ n > Bids /\ sender'[n] = v
      <3>1. n \in Queued(v) \cup Asked(v) \/ (n = m /\ v = u)
        BY <1>2, <2>2
      <3>2. n \in Queued(v) \cup Asked(v) => n \in Sent /\ n > Bids /\ sender[n] = v
        BY DEF ChatInv, AllSent
      <3> QED
        BY <1>1, <3>1, <3>2
    <2>3. ASSUME NEW n \in Sent'
          PROVE  saw'[n] \subseteq 1..(n - 1)
      <3>1. CASE n \in Sent
        BY <1>1, <3>1 DEF ChatInv, AllSent
      <3>2. CASE n = m
        <4>1. \A l \in Sent : l \in 1..(m - 1)
          BY <1>1 DEF Sent
        <4> QED
          BY <1>1, <1>4, <3>2, <4>1
      <3> QED
        BY <1>1, <3>1, <3>2
    <2>4. 1..Bids \subseteq stored' /\ stored' \subseteq Sent'
      BY <1>1, <1>4 DEF ChatInv, AllSent
    <2>5. \A v \in Users : known'[v] \subseteq stored'
      BY <1>1 DEF ChatInv, AllSent
    <2> QED
      BY <2>1, <2>2, <2>3, <2>4, <2>5 DEF AllSent
  <1>9. KnownIsPrefix'
    <2>1. \A v \in Users : known[v] \subseteq Sent
      BY <1>4 DEF ChatInv, AllSent
    <2> QED
      BY <1>1, <1>4, <2>1 DEF ChatInv, KnownIsPrefix
  <1>10. RepliesClosed'
    <2>1. Closed(stored, stored)'
      <3> SUFFICES ASSUME NEW l \in stored, NEW n \in saw'[l]
                   PROVE  n \in stored \/ Gone(n)'
        BY <1>1 DEF Closed
      <3>1. n \in saw[l] /\ n \in Sent
        BY <1>1, <1>4, <1>7
      <3> QED
        BY <1>6, <3>1 DEF ChatInv, RepliesClosed, Closed
    <2>2. ASSUME NEW v \in Users
          PROVE  Closed(Local(v) \cup Asked(v), Local(v))'
      <3> SUFFICES ASSUME NEW l \in Local(v)' \cup Asked(v)', NEW n \in saw'[l]
                   PROVE  n \in Local(v)' \/ Gone(n)'
        BY DEF Closed
      <3>1. l \in Local(v) \cup Asked(v) \/ (l = m /\ v = u)
        BY <1>2, <1>4
      <3>2. CASE l \in Local(v) \cup Asked(v)
        <4>1. l \in Sent
          BY <1>4, <3>2
        <4>2. n \in saw[l] /\ n \in Sent
          BY <1>1, <1>7, <4>1
        <4>3. n \in Local(v) \/ Gone(n)
          BY <3>2, <4>2 DEF ChatInv, RepliesClosed, Closed
        <4> QED
          BY <1>4, <1>6, <4>2, <4>3
      <3>3. CASE l = m /\ v = u
        <4>1. n \in Heard(u) /\ n \in Sent
          BY <1>1, <1>4, <3>3
        <4>2. n \in Local(u) \/ Gone(n)
          BY <4>1 DEF ChatInv, ListenersTell, Lost
        <4> QED
          BY <1>4, <1>6, <3>3, <4>1, <4>2
      <3> QED
        BY <3>1, <3>2, <3>3
    <2>3. ASSUME NEW v \in Users
          PROVE  Closed(Heard(v), Heard(v))'
      <3> SUFFICES ASSUME NEW l \in Heard(v)', NEW n \in saw'[l]
                   PROVE  n \in Heard(v)' \/ Gone(n)'
        BY DEF Closed
      <3>1. l \in Heard(v) /\ l \in Sent /\ Heard(v)' = Heard(v)
        BY <1>3, <1>4
      <3>2. n \in saw[l] /\ n \in Sent
        BY <1>1, <1>7, <3>1
      <3>3. n \in Heard(v) \/ Gone(n)
        BY <3>1, <3>2 DEF ChatInv, RepliesClosed, Closed
      <3> QED
        BY <1>6, <3>1, <3>2, <3>3
    <2> QED
      BY <2>1, <2>2, <2>3 DEF RepliesClosed
  <1>11. LogsInOrder'
    <2> SUFFICES ASSUME NEW v \in Users
                 PROVE  LogInOrder(v, heard[v])'
      BY DEF LogsInOrder
    <2>1. CASE heard'[v] = << >>
      BY <2>1 DEF LogInOrder
    <2>2. CASE heard'[v] = heard[v]
      <3>1. \A i \in DOMAIN heard[v] : heard[v][i] \in Sent
        BY <1>4 DEF Heard, Elements
      <3>2. \A l, n \in Sent : Before(l, n)' <=> Before(l, n)
        BY <1>1 DEF Before, Created
      <3>3. LogInOrder(v, heard[v])
        BY DEF ChatInv, LogsInOrder
      <3> QED
        BY <1>1, <2>2, <3>1, <3>2, <3>3 DEF LogInOrder
    <2> QED
      BY <2>1, <2>2
  <1>12. ASSUME NEW v \in Users, NEW l \in Heard(v)'
         PROVE  l \in Local(v)' \/ Lost(v, l)'
    <2>1. l \in Heard(v) /\ l \in Sent
      BY <1>3, <1>4
    <2>2. l \in Local(v) \/ Lost(v, l)
      BY <2>1 DEF ChatInv, ListenersTell
    <2> QED
      BY <1>1, <1>4, <1>6, <2>1, <2>2 DEF Lost
  <1>13. \A v \in Users : \A l \in Queued(v)', n \in Asked(v)' : l < n
    BY <1>2 DEF ChatInv, InLine
  <1>14. ASSUME NEW v \in Users, NEW l \in stored', NEW n \in Queued(v)' \cup Asked(v)',
                sender'[l] = v
         PROVE  l < n
    <2>1. l \in stored /\ l \in Sent /\ sender[l] = v
      BY <1>1, <1>4, <1>14
    <2>2. n \in Queued(v) \cup Asked(v) \/ n = m
      BY <1>2
    <2> QED
      BY <1>1, <2>1, <2>2 DEF ChatInv, InLine
  <1>15. ASSUME NEW v \in Users, NEW l \in Heard(v)', NEW n \in Asked(v)', sender'[l] = v
         PROVE  l < n
    <2>1. l \in Heard(v) /\ l \in Sent /\ sender[l] = v
      BY <1>1, <1>3, <1>4, <1>15
    <2>2. n \in Asked(v) \/ n = m
      BY <1>2
    <2> QED
      BY <1>1, <2>1, <2>2 DEF ChatInv, InLine
  <1> QED
    BY <1>8, <1>9, <1>10, <1>11, <1>12, <1>13, <1>14, <1>15

(* The first k of what the client was asked to write.                      *)
LEMMA Beginning ==
    ASSUME NEW s \in Seq(Messages), Grows(s), NEW k \in 0..Len(s)
    PROVE  /\ SubSeq(s, 1, k) \in Seq(Messages)
           /\ Elements(SubSeq(s, 1, k)) \subseteq Elements(s)
           /\ Grows(SubSeq(s, 1, k))
  <1>1. PICK b : b = SubSeq(s, 1, k)
    OBVIOUS
  <1>2. /\ b \in Seq(Messages) /\ DOMAIN b = 1..k
        /\ \A i \in 1..k : b[i] = s[i] /\ i \in DOMAIN s
    <2>1. k \in Nat /\ \A i \in 1..k : i \in 1..Len(s) /\ s[i] \in Messages
      OBVIOUS
    <2> QED
      BY <1>1, <2>1
  <1>3. Grows(b)
    BY <1>2 DEF Grows
  <1> QED
    BY <1>1, <1>2, <1>3 DEF Elements

(* A growing sequence that goes on with larger numbers.                    *)
LEMMA GrowsOn ==
    ASSUME NEW s \in Seq(Messages), NEW t \in Seq(Messages), Grows(s), Grows(t),
           \A m \in Elements(s), n \in Elements(t) : m < n
    PROVE  Grows(s \o t)
  <1>1. PICK c : c = s \o t
    OBVIOUS
  <1>2. \A i, k \in DOMAIN c : i < k =>
          \/ i \in DOMAIN s /\ k \in DOMAIN s /\ c[i] = s[i] /\ c[k] = s[k]
          \/ c[i] \in Elements(s) /\ c[k] \in Elements(t)
          \/ \E j, l \in DOMAIN t : j < l /\ c[i] = t[j] /\ c[k] = t[l]
    BY <1>1, Concat
  <1> QED
    BY <1>1, <1>2 DEF Grows

(* The new message is the last of what is asked.                           *)
LEMMA AskedLast ==
    ASSUME ChatInv, NEW u \in Users, Send(u), NEW m, m = Len(sender) + 1
    PROVE  /\ Append(tasks[u], m) \in Seq(Messages \cup {Listen})
           /\ InTurn(Append(tasks[u], m))
           /\ Elements(Append(tasks[u], m)) = Elements(tasks[u]) \cup {m}
           /\ \A n \in Queued(u) \cup Asked(u) : n < m
           /\ m # Listen
  <1>1. m \in Messages /\ m # Listen /\ \A n \in Sent : n < m
    BY NewMessage, SentTypes DEF ChatInv
  <1>2. tasks[u] \in Seq(Messages \cup {Listen}) /\ InTurn(tasks[u])
    BY PhoneTypes DEF ChatInv, InLine
  <1>3. \A n \in Queued(u) \cup Asked(u) : n < m
    BY <1>1 DEF ChatInv, AllSent
  <1>4. PICK a : a = Append(tasks[u], m)
    OBVIOUS
  <1>5. /\ a \in Seq(Messages \cup {Listen}) /\ Elements(a) = Elements(tasks[u]) \cup {m}
        /\ \A i, k \in DOMAIN a : i < k =>
              \/ /\ i \in DOMAIN tasks[u] /\ k \in DOMAIN tasks[u]
                 /\ a[i] = tasks[u][i] /\ a[k] = tasks[u][k]
              \/ a[i] \in Elements(tasks[u]) /\ a[k] = m
    BY <1>1, <1>2, <1>4, Appended
  <1>6. \A n \in Elements(tasks[u]) : n # m /\ (n # Listen => n < m)
    BY <1>1, <1>3 DEF Asked, ChatInv, AllSent
  <1>7. InTurn(a)
    <2> SUFFICES ASSUME NEW i \in DOMAIN a, NEW k \in DOMAIN a, i < k
                 PROVE  a[i] # a[k] /\ (Listen \notin {a[i], a[k]} => a[i] < a[k])
      BY DEF InTurn
    <2>1. CASE /\ i \in DOMAIN tasks[u] /\ k \in DOMAIN tasks[u]
               /\ a[i] = tasks[u][i] /\ a[k] = tasks[u][k]
      BY <1>2, <2>1 DEF InTurn
    <2>2. CASE a[i] \in Elements(tasks[u]) /\ a[k] = m
      BY <1>6, <2>2
    <2> QED
      BY <1>5, <2>1, <2>2
  <1> QED
    BY <1>1, <1>3, <1>4, <1>5, <1>7

LEMMA SendKeeps ==
    ASSUME ChatInv, NEW u \in Users, Send(u)
    PROVE  ChatInv'
  <1>1. PICK m : m = Len(sender) + 1
    OBVIOUS
  <1>2. /\ m \in Messages
        /\ sender' \in Seq(Users) /\ Len(sender') = m /\ m \in Bids..MaxMessages
        /\ saw' \in [1..m -> SUBSET Messages]
        /\ skew' = skew /\ stored' = stored /\ known' = known
    BY <1>1, NewMessage
  <1>3. PICK a : a = Append(tasks[u], m)
    OBVIOUS
  <1>4. /\ a \in Seq(Messages \cup {Listen}) /\ InTurn(a)
        /\ Elements(a) = Elements(tasks[u]) \cup {m}
        /\ \A n \in Queued(u) \cup Asked(u) : n < m
        /\ m # Listen
    BY <1>1, <1>3, AskedLast
  <1>5. Elements(a) \ {Listen} = Asked(u) \cup {m}
    BY <1>4 DEF Asked
  <1>6. TypeOK
    BY DEF ChatInv
  <1>7. CASE rows[u] # 0
    <2>1. /\ tasks' = [tasks EXCEPT ![u] = a]
          /\ queue' = queue /\ open' = open /\ heard' = heard
          /\ filled' = filled /\ rows' = rows
      BY <1>1, <1>3, <1>7 DEF Send
    <2>2. tasks'[u] = a /\ \A v \in Users : v # u => tasks'[v] = tasks[v]
      BY <1>6, <2>1 DEF TypeOK
    <2>3. TypeOK'
      <3>1. tasks' \in [Users -> Seq(Messages \cup {Listen})]
        BY <1>4, <1>6, <2>1 DEF TypeOK
      <3> QED
        BY <1>2, <1>6, <2>1, <3>1 DEF TypeOK
    <2>4. /\ Queued(u)' = Queued(u) /\ Asked(u)' = Asked(u) \cup {m}
          /\ \A v \in Users : v # u => Asked(v)' = Asked(v)
      BY <1>5, <2>1, <2>2 DEF Queued, Asked
    <2>5. \A l \in Queued(u)', n \in Asked(u)' : l < n
      BY <1>4, <2>4 DEF ChatInv, InLine
    <2>6. /\ AllSent' /\ KnownIsPrefix' /\ RepliesClosed' /\ LogsInOrder'
          /\ \A v \in Users :
               /\ \A l \in Heard(v)' : l \in Local(v)' \/ Lost(v, l)'
               /\ \A l \in Queued(v)', n \in Asked(v)' : l < n
               /\ \A l \in stored', n \in Queued(v)' \cup Asked(v)' : sender'[l] = v => l < n
               /\ \A l \in Heard(v)', n \in Asked(v)' : sender'[l] = v => l < n
      BY <1>1, <2>1, <2>2, <2>4, <2>5, SendKeepsParts
    <2>7. InLine'
      <3>1. \A v \in Users : Grows(queue'[v]) /\ InTurn(tasks'[v])
        BY <1>4, <2>1, <2>2 DEF ChatInv, InLine
      <3> QED
        BY <2>6, <3>1 DEF InLine
    <2>8. ListenersTell'
      <3>1. \A v \in Users : Listen \in Elements(tasks'[v]) <=> Listen \in Elements(tasks[v])
        BY <1>4, <2>2
      <3>2. \A v \in Users : /\ Listening(v)' <=> Listening(v)
                             /\ Local(v)' = Local(v) /\ Heard(v)' = Heard(v)
        BY <1>2, <2>1, <3>1 DEF Listening, Local, Heard
      <3> QED
        BY <2>1, <2>6, <3>1, <3>2 DEF ChatInv, ListenersTell
    <2> QED
      BY <2>3, <2>6, <2>7, <2>8 DEF ChatInv
  <1>8. CASE rows[u] = 0
    <2>1. PICK k \in 0..Len(Writes(a)) : Die(u, queue[u] \o SubSeq(Writes(a), 1, k))
      BY <1>1, <1>3, <1>8 DEF Send
    <2>2. PICK w : w = SubSeq(Writes(a), 1, k)
      OBVIOUS
    <2>3. w \in Seq(Messages) /\ Grows(w) /\ Elements(w) \subseteq Asked(u) \cup {m}
      BY <1>4, <1>5, <2>1, <2>2, WritesOfTasks, Beginning
    <2>4. queue[u] \in Seq(Messages) /\ Grows(queue[u])
      BY <1>6, PhoneTypes DEF ChatInv, InLine
    <2>5. PICK q : q = queue[u] \o w
      OBVIOUS
    <2>6. /\ q \in Seq(Messages) /\ Grows(q)
          /\ Elements(q) = Queued(u) \cup Elements(w)
      <3>1. \A l \in Elements(queue[u]), n \in Elements(w) : l < n
        BY <1>4, <2>3 DEF ChatInv, InLine, Queued
      <3> QED
        BY <2>3, <2>4, <2>5, <3>1, Concat, GrowsOn DEF Queued
    <2>7. /\ open' = open \ {u}
          /\ heard' = [heard EXCEPT ![u] = << >>]
          /\ filled' = [filled EXCEPT ![u] = 0] /\ rows' = [rows EXCEPT ![u] = 0]
          /\ queue' = [queue EXCEPT ![u] = q]
          /\ tasks' = [tasks EXCEPT ![u] = << >>]
      BY <2>1, <2>2, <2>5 DEF Die, ClearLog
    <2>8. /\ heard'[u] = << >> /\ filled'[u] = 0 /\ rows'[u] = 0
          /\ queue'[u] = q /\ tasks'[u] = << >>
          /\ \A v \in Users : v # u =>
                /\ queue'[v] = queue[v] /\ tasks'[v] = tasks[v]
                /\ heard'[v] = heard[v] /\ filled'[v] = filled[v] /\ rows'[v] = rows[v]
      BY <1>6, <2>7 DEF TypeOK
    <2>9. TypeOK'
      <3>1. /\ heard' \in [Users -> Seq(Messages)]
            /\ filled' \in [Users -> Nat] /\ rows' \in [Users -> Nat]
            /\ queue' \in [Users -> Seq(Messages)]
            /\ tasks' \in [Users -> Seq(Messages \cup {Listen})]
        BY <1>6, <2>6, <2>7, EmptySeq DEF TypeOK
      <3>2. \A v \in Users :
               v # u => rows'[v] <= filled'[v] /\ filled'[v] <= Len(heard'[v])
        BY <1>6, <2>8 DEF TypeOK
      <3>3. rows'[u] <= filled'[u] /\ filled'[u] <= Len(heard'[u])
        BY <2>8
      <3>4. \A v \in Users : rows'[v] <= filled'[v] /\ filled'[v] <= Len(heard'[v])
        BY <3>2, <3>3
      <3>5. open' \in SUBSET Users
        BY <1>6, <2>7 DEF TypeOK
      <3> QED
        BY <1>2, <1>6, <3>1, <3>4, <3>5 DEF TypeOK
    <2>10. /\ Queued(u) \subseteq Queued(u)'
           /\ Queued(u)' \subseteq Queued(u) \cup Asked(u) \cup {m}
           /\ Asked(u)' = {}
      BY <2>3, <2>6, <2>8, NoElements DEF Queued, Asked
    <2>11. /\ AllSent' /\ KnownIsPrefix' /\ RepliesClosed' /\ LogsInOrder'
           /\ \A v \in Users :
                /\ \A l \in Heard(v)' : l \in Local(v)' \/ Lost(v, l)'
                /\ \A l \in Queued(v)', n \in Asked(v)' : l < n
                /\ \A l \in stored', n \in Queued(v)' \cup Asked(v)' : sender'[l] = v => l < n
                /\ \A l \in Heard(v)', n \in Asked(v)' : sender'[l] = v => l < n
      BY <1>1, <2>8, <2>10, SendKeepsParts
    <2>12. InLine'
      <3>1. InTurn(<< >>)
        BY DEF InTurn
      <3>2. \A v \in Users : Grows(queue'[v]) /\ InTurn(tasks'[v])
        BY <2>6, <2>8, <3>1 DEF ChatInv, InLine
      <3> QED
        BY <2>11, <3>2 DEF InLine
    <2>13. ListenersTell'
      <3> SUFFICES ASSUME NEW v \in Users
                   PROVE  /\ v \notin open' => Listen \notin Elements(tasks'[v])
                          /\ ~Listening(v)' => heard'[v] = << >>
                          /\ Listening(v)' => Local(v)' \subseteq Heard(v)'
        BY <2>11 DEF ListenersTell
      <3>1. CASE v = u
        BY <2>7, <2>8, <3>1, NoElements DEF Listening
      <3>2. CASE v # u
        <4>1. /\ v \in open' <=> v \in open
              /\ Listening(v)' <=> Listening(v)
              /\ Local(v)' = Local(v) /\ Heard(v)' = Heard(v)
          BY <1>2, <2>7, <2>8, <3>2 DEF Listening, Local, Heard
        <4> QED
          BY <2>8, <3>2, <4>1 DEF ChatInv, ListenersTell
      <3> QED
        BY <3>1, <3>2
    <2> QED
      BY <2>9, <2>11, <2>12, <2>13 DEF ChatInv
  <1> QED
    BY <1>7, <1>8

-----------------------------------------------------------------------------
(* Every step, and what follows from the invariant.                        *)

LEMMA StutterKeeps ==
    ASSUME ChatInv, UNCHANGED vars
    PROVE  ChatInv'
  <1> USE DEF vars
  <1>1. TypeOK' /\ KnownIsPrefix'
    BY DEF ChatInv, TypeOK, KnownIsPrefix
  <1>4. AllSent' /\ InLine'
    BY DEF ChatInv, AllSent, Sent, InLine, Queued, Asked, Heard, Grows, InTurn
  <1>2. /\ AllSent' /\ KnownIsPrefix' /\ RepliesClosed' /\ LogsInOrder'
        /\ \A v \in Users : \A m \in Heard(v)' : m \in Local(v)' \/ Lost(v, m)'
    BY Shrinks DEF Queued, Asked
  <1>3. ListenersTell'
    BY <1>2 DEF ChatInv, ListenersTell, Listening, Local, Queued, Heard
  <1> QED
    BY <1>1, <1>2, <1>3, <1>4 DEF ChatInv

LEMMA NextKeeps ==
    ASSUME ChatInv, [Next]_vars
    PROVE  ChatInv'
  <1>1. CASE UNCHANGED vars
    BY <1>1, StutterKeeps
  <1>2. ASSUME NEW u \in Users, OpenLog(u)
        PROVE  ChatInv'
    BY <1>2, OpenLogKeeps
  <1>3. ASSUME NEW u \in Users, CloseLog(u)
        PROVE  ChatInv'
    BY <1>3, CloseLogKeeps
  <1>4. ASSUME NEW u \in Users, MainQueue(u)
        PROVE  ChatInv'
    BY <1>4, MainQueueKeeps
  <1>5. ASSUME NEW u \in Users, KeyboardShown(u) \/ Crash(u)
        PROVE  ChatInv'
    BY <1>5, DieKeeps DEF KeyboardShown, Crash
  <1>6. ASSUME NEW u \in Users, Send(u)
        PROVE  ChatInv'
    BY <1>6, SendKeeps
  <1>7. ASSUME NEW u \in Users, Work(u)
        PROVE  ChatInv'
    BY <1>7, StartListeningKeeps, WriteMessageKeeps DEF Work
  <1>8. ASSUME NEW u \in Users, Answer(u)
        PROVE  ChatInv'
    BY <1>8, AcknowledgeKeeps, RefuseKeeps DEF Answer
  <1>9. ASSUME NEW u \in Users, Sync(u)
        PROVE  ChatInv'
    BY <1>9, SyncKeeps
  <1> QED
    BY <1>1, <1>2, <1>3, <1>4, <1>5, <1>6, <1>7, <1>8, <1>9 DEF Next

(* In every reachable state the invariant that the order of the rows rests *)
(* on holds: nothing overtakes anything on its way from the keyboard to    *)
(* the server and to the two logs (ChatLogController:42-67, 339-345).      *)
THEOREM AlwaysInOrder == Spec => []ChatInv
  <1>1. ChatInv /\ [Next]_vars => ChatInv'
    BY NextKeeps
  <1> QED
    BY InitHolds, <1>1, PTL DEF Spec

(* The variables keep their types, the screen never shows more rows than   *)
(* the log has messages, nor has it more than its listener was told of     *)
(* (ChatLogController:42-67).                                              *)
THEOREM TypeCorrect == Spec => []TypeOK
  <1>1. ChatInv => TypeOK
    BY DEF ChatInv
  <1> QED
    BY AlwaysInOrder, <1>1, PTL

(* In every log the messages of one sender stand in the order they were    *)
(* sent, bids that a phone had not in its cache apart, for any clocks and  *)
(* with a server that refuses messages or not (ChatLogController:43-57).   *)
THEOREM SendersInOrder == Spec => []SenderOrder
  <1>1. ChatInv => SenderOrder
    BY DEF ChatInv, LogsInOrder, LogInOrder, SenderOrder
  <1> QED
    BY AlwaysInOrder, <1>1, PTL

(* A reply that is not dated earlier stands below what its sender saw when *)
(* sending it, in both logs (ChatLogController:43, 353).                   *)
THEOREM RepliesComeAfter == Spec => []RepliesFollow
  <1>1. ChatInv => RepliesFollow
    BY DEF ChatInv, LogsInOrder, LogInOrder, RepliesFollow
  <1> QED
    BY AlwaysInOrder, <1>1, PTL

(* No log shows a message twice, whatever portions of it come from the     *)
(* queue and from the server (ChatLogController:51-57).                    *)
THEOREM RowsShownOnce == Spec => []ShownOnce
  <1>1. ASSUME ChatInv
        PROVE  ShownOnce
    <2> SUFFICES ASSUME NEW u \in Users, NEW i \in DOMAIN heard[u], NEW k \in DOMAIN heard[u],
                        heard[u][i] = heard[u][k]
                 PROVE  i = k
      BY DEF ShownOnce
    <2>1. heard[u] \in Seq(Messages)
      BY <1>1, PhoneTypes DEF ChatInv
    <2>2. i \in Int /\ k \in Int
      BY <2>1
    <2>3. ~(i < k) /\ ~(k < i)
      BY <1>1 DEF ChatInv, LogsInOrder, LogInOrder
    <2> QED
      BY <2>2, <2>3
  <1> QED
    BY AlwaysInOrder, <1>1, PTL
=============================================================================
