----------------------------- MODULE Negotiation -----------------------------
(***************************************************************************)
(* What bidding promises to everybody who reads the database: an offer is  *)
(* made in a chat about its job; a chat is in the message lists of the     *)
(* poster and of one bidder, once each, and only when it can be loaded; and*)
(* a chat is accepted together with the records of who got the job.        *)
(***************************************************************************)
CONSTANTS Chats, Users, Jobs, PosterOf, NoJob

VARIABLES
    chats,     \* the job a chat is about, NoJob if there is no such chat
    offers,    \* who has bid on what
    rows,      \* the rows of the message lists
    accepted,  \* the chats that are accepted
    agreed     \* who got which job, as all records of it say

vars == <<chats, offers, rows, accepted, agreed>>

Offer == [job: Jobs, user: Users]
Row   == [chat: Chats, owner: Users, partner: Users]

Sides(r) == {r.owner, r.partner}

Init ==
    /\ chats = [c \in Chats |-> NoJob]
    /\ offers = {} /\ rows = {} /\ accepted = {} /\ agreed = {}

(* A round of bidding begins, in a new chat or in a known one, which is    *)
(* then open again.                                                        *)
Propose(c, j) ==
    /\ chats[c] \in {NoJob, j}
    /\ chats' = [chats EXCEPT ![c] = j]
    /\ accepted' = accepted \ {c}
    /\ UNCHANGED <<offers, rows, agreed>>

MakeOffer(o) ==
    /\ o.user # PosterOf[o.job]
    /\ \E c \in Chats : chats[c] = o.job
    /\ offers' = offers \cup {o}
    /\ UNCHANGED <<chats, rows, accepted, agreed>>

List(r, o) ==
    /\ o \in offers
    /\ chats[r.chat] = o.job
    /\ Sides(r) = {PosterOf[o.job], o.user}
    /\ \A s \in rows : s.chat = r.chat => Sides(s) = Sides(r) /\ s.owner # r.owner
    /\ r.chat \in accepted => o \in agreed
    /\ rows' = rows \cup {r}
    /\ UNCHANGED <<chats, offers, accepted, agreed>>

(* Either user accepts; the records are there at once.                     *)
Agree(c, o) ==
    /\ o \in offers
    /\ chats[c] = o.job
    /\ \A r \in rows : r.chat = c => o.user \in Sides(r)
    /\ accepted' = accepted \cup {c}
    /\ agreed' = agreed \cup {o}
    /\ UNCHANGED <<chats, offers, rows>>

Next ==
    \/ \E c \in Chats, j \in Jobs : Propose(c, j)
    \/ \E o \in Offer : MakeOffer(o)
    \/ \E r \in Row, o \in offers : List(r, o)
    \/ \E c \in Chats, o \in offers : Agree(c, o)

Spec == Init /\ [][Next]_vars
=============================================================================
