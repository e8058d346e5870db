------------------------------- MODULE TimeAgo -------------------------------
(***************************************************************************)
(* How long ago a job was posted or a message sent, as the lists word it   *)
(* (Date.timeAgoSinceDate).  Foundation's calendar takes the time between  *)
(* two dates apart into the seven components the code asks for; that is    *)
(* the input here, the years first.  All callers pass numericDates: true,  *)
(* so a text is a unit and a number, or "Just now".                        *)
(***************************************************************************)
EXTENDS Integers, TLAPS

Year == 1
Month == 2
WeekOfYear == 3
Day == 4
Hour == 5
Minute == 6
Second == 7
Units == Year..Second
JustNow == 8

(* The calendar's components, from the earlier of the two dates to the     *)
(* later one, whichever that is.                                           *)
Components == [Units -> Nat]

(* The texts, by the unit they are in.                                     *)
Text == [unit: Units \cup {JustNow}, count: Nat]

(* A unit is worth mentioning from one on, seconds from three on.          *)
Least(u) == IF u = Second THEN 3 ELSE 1

Mentioned(c, u) ==
    /\ c[u] >= Least(u)
    /\ \A v \in Units : v < u => c[v] < Least(v)

(* The chain of comparisons: the first unit worth mentioning.              *)
timeAgo(c) ==
    IF \E u \in Units : Mentioned(c, u)
    THEN LET u == CHOOSE u \in Units : Mentioned(c, u)
         IN  [unit |-> u, count |-> c[u]]
    ELSE [unit |-> JustNow, count |-> 0]

-----------------------------------------------------------------------------
(* The calendar's order: d is at least as long as c.                       *)
NoShorter(d, c) ==
    \/ d = c
    \/ \E u \in Units : /\ d[u] > c[u]
                        /\ \A v \in Units : v < u => d[v] = c[v]

ReadsNoYounger(s, t) ==
    s.unit < t.unit \/ (s.unit = t.unit /\ s.count >= t.count)

LEMMA UnitsAreNumbers == Units = {1, 2, 3, 4, 5, 6, 7}
BY DEF Units, Year, Second

LEMMA LeastPositive == \A u \in Units : Least(u) \in Nat /\ Least(u) >= 1
BY DEF Least

(* At most one unit is the first worth mentioning.                         *)
LEMMA MentionedOnce ==
    ASSUME NEW c \in Components, NEW u \in Units, NEW v \in Units,
           Mentioned(c, u), Mentioned(c, v)
    PROVE  u = v
<1>1. c[u] \in Nat /\ c[v] \in Nat /\ Least(u) \in Nat /\ Least(v) \in Nat
    BY LeastPositive DEF Components
<1>2. ~ (u < v)
    BY <1>1 DEF Mentioned
<1>3. ~ (v < u)
    BY <1>1 DEF Mentioned
<1> QED
    BY <1>2, <1>3, UnitsAreNumbers

LEMMA TextOfMentioned ==
    ASSUME NEW c \in Components, NEW u \in Units, Mentioned(c, u)
    PROVE  timeAgo(c) = [unit |-> u, count |-> c[u]]
<1> DEFINE w == CHOOSE w \in Units : Mentioned(c, w)
<1>1. w \in Units /\ Mentioned(c, w)
    OBVIOUS
<1>2. w = u
    BY <1>1, MentionedOnce
<1> QED
    BY <1>1, <1>2 DEF timeAgo

(* If no unit is the first worth mentioning, none is worth mentioning.     *)
LEMMA NoneWorthMentioning ==
    ASSUME NEW c \in Components, \A u \in Units : ~ Mentioned(c, u)
    PROVE  \A u \in Units : c[u] < Least(u)
<1> DEFINE Low(u) == c[u] < Least(u)
<1>1. \A u \in Units : (\A v \in Units : v < u => Low(v)) => Low(u)
    BY LeastPositive DEF Mentioned, Components
<1> HIDE DEF Low
<1>2. Low(1) /\ Low(2) /\ Low(3) /\ Low(4) /\ Low(5) /\ Low(6) /\ Low(7)
    BY <1>1, UnitsAreNumbers
<1>3. \A u \in Units : Low(u)
    BY <1>2, UnitsAreNumbers
<1> QED
    BY <1>3 DEF Low

(* Time passing never makes a text read younger: between two looks at one  *)
(* date, and between two dates at one look, the longer time has the larger *)
(* unit, or the same unit and no smaller number.  No boundary between two  *)
(* of the eight branches (Date+timeAgoSinceDate:18-69) leaps backwards.    *)
THEOREM NeverReadsYounger ==
    ASSUME NEW c \in Components, NEW d \in Components, NoShorter(d, c)
    PROVE  ReadsNoYounger(timeAgo(d), timeAgo(c))
<1>1. CASE d = c
    <2>1. timeAgo(c).count >= timeAgo(c).count
        <3>1. CASE \E u \in Units : Mentioned(c, u)
            BY <3>1, TextOfMentioned DEF Components
        <3>2. CASE ~ \E u \in Units : Mentioned(c, u)
            BY <3>2 DEF timeAgo
        <3> QED
            BY <3>1, <3>2
    <2> QED
        BY <1>1, <2>1 DEF ReadsNoYounger
<1>2. CASE \E u \in Units : d[u] > c[u] /\ \A v \in Units : v < u => d[v] = c[v]
    <2>1. PICK u \in Units : d[u] > c[u] /\ \A v \in Units : v < u => d[v] = c[v]
        BY <1>2
    <2>2. \A v \in Units : c[v] \in Nat /\ d[v] \in Nat /\ Least(v) \in Nat /\ v \in Int
        BY LeastPositive, UnitsAreNumbers DEF Components
    <2>3. CASE \E t \in Units : Mentioned(c, t)
        <3>1. PICK t \in Units : Mentioned(c, t)
            BY <2>3
        <3>2. timeAgo(c) = [unit |-> t, count |-> c[t]]
            BY <3>1, TextOfMentioned
        <3>3. CASE t < u
            <4>1. Mentioned(d, t)
                BY <2>1, <2>2, <3>1, <3>3 DEF Mentioned
            <4>2. timeAgo(d) = [unit |-> t, count |-> d[t]]
                BY <4>1, TextOfMentioned
            <4> QED
                BY <2>1, <2>2, <3>2, <3>3, <4>2 DEF ReadsNoYounger
        <3>4. CASE t = u
            <4>1. Mentioned(d, t)
                BY <2>1, <2>2, <3>1, <3>4 DEF Mentioned
            <4>2. timeAgo(d) = [unit |-> t, count |-> d[t]]
                BY <4>1, TextOfMentioned
            <4> QED
                BY <2>1, <2>2, <3>2, <3>4, <4>2 DEF ReadsNoYounger
        <3>5. CASE u < t
            <4>1. u # Second
                BY <3>5 DEF Units, Second
            <4>2. Mentioned(d, u)
                BY <2>1, <2>2, <3>1, <3>5, <4>1 DEF Mentioned, Least
            <4>3. timeAgo(d) = [unit |-> u, count |-> d[u]]
                BY <4>2, TextOfMentioned
            <4> QED
                BY <3>2, <3>5, <4>3 DEF ReadsNoYounger
        <3> QED
            BY <2>2, <3>3, <3>4, <3>5
    <2>4. CASE ~ \E t \in Units : Mentioned(c, t)
        <3>1. timeAgo(c) = [unit |-> JustNow, count |-> 0]
            BY <2>4 DEF timeAgo
        <3>2. CASE \E t \in Units : Mentioned(d, t)
            <4>1. PICK t \in Units : Mentioned(d, t)
                BY <3>2
            <4>2. timeAgo(d) = [unit |-> t, count |-> d[t]]
                BY <4>1, TextOfMentioned
            <4> QED
                BY <3>1, <4>2, UnitsAreNumbers DEF ReadsNoYounger, JustNow
        <3>3. CASE ~ \E t \in Units : Mentioned(d, t)
            BY <3>1, <3>3 DEF timeAgo, ReadsNoYounger
        <3> QED
            BY <3>2, <3>3
    <2> QED
        BY <2>3, <2>4
<1> QED
    BY <1>1, <1>2 DEF NoShorter
=============================================================================
