---------------------------- MODULE MCJobPosting ----------------------------
(* Small instances of JobPosting: two phones and accounts, two posts of up *)
(* to two pictures.                                                        *)
EXTENDS JobPosting

CONSTANTS phone, phone2, user, user2, lawn, sofa, front, back
=============================================================================
