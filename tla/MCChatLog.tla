------------------------------ MODULE MCChatLog ------------------------------
(* Small instances of ChatLog: a helpr and the helpee, clocks that agree or *)
(* are apart.                                                               *)
EXTENDS ChatLog

CONSTANTS helpr, helpee
=============================================================================
