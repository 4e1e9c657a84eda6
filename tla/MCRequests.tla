---------------------------- MODULE MCRequests -----------------------------
(* Two accounts with one address, one of them starting runs without end,   *)
(* one request let in per window.                                           *)
EXTENDS OperatorRequests

CONSTANTS ann, bob, c1, c2
=============================================================================
