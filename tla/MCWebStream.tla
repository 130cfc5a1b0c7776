---------------------------- MODULE MCWebStream -----------------------------
(* Instances of WebStream for TLC: one websocket. *)
EXTENDS WebStream

CONSTANT s1
=============================================================================
