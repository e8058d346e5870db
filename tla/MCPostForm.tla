----------------------------- MODULE MCPostForm -----------------------------
(* A small instance of PostForm: two photos, two categories.               *)
EXTENDS PostForm

CONSTANTS cat, dog, design, tutoring
=============================================================================
