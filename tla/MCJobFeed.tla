------------------------------ MODULE MCJobFeed ------------------------------
(* Small instances of JobFeed: jobs posted from one phone, read on another. *)
EXTENDS JobFeed

CONSTANTS phone, user, user2, front, back, lawn, sofa, search1, search2
=============================================================================
