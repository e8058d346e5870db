------------------------------ MODULE JobBoard ------------------------------
(***************************************************************************)
(* What posting a job promises to everybody who reads the database: a job  *)
(* document appears once, with all the pictures its poster chose, and is   *)
(* listed among a user's posts only when it can be loaded.                 *)
(***************************************************************************)
CONSTANTS Users, Posts, Pictures

VARIABLES
    requested,  \* the posts users asked for, with the pictures they chose
    published,  \* the job documents
    listed      \* the entries of the users' lists of posts

vars == <<requested, published, listed>>

Request == [id: Posts, pictures: SUBSET Pictures]
Job     == [id: Posts, pictures: SUBSET Pictures, poster: Users]
Entry   == [id: Posts, poster: Users]

Init == requested = {} /\ published = {} /\ listed = {}

Ask(r) ==
    /\ \A s \in requested : s.id # r.id
    /\ requested' = requested \cup {r}
    /\ UNCHANGED <<published, listed>>

Publish(j) ==
    /\ [id |-> j.id, pictures |-> j.pictures] \in requested
    /\ \A k \in published : k.id # j.id
    /\ published' = published \cup {j}
    /\ UNCHANGED <<requested, listed>>

List(e) ==
    /\ \E j \in published : j.id = e.id /\ j.poster = e.poster
    /\ listed' = listed \cup {e}
    /\ UNCHANGED <<requested, published>>

Next ==
    \/ \E r \in Request : Ask(r)
    \/ \E j \in Job : Publish(j)
    \/ \E e \in Entry : List(e)

Spec == Init /\ [][Next]_vars
=============================================================================
