------------------------------ MODULE MCSession ------------------------------
(* Small instances of Session: two accounts on one phone.                   *)
EXTENDS Session

CONSTANTS ann, bob
=============================================================================
