------------------------------- MODULE MCSession -------------------------------
(***************************************************************************)
(* Session for TLC: all its constants are numbers and Booleans.            *)
(***************************************************************************)
EXTENDS Session
==============================================================================
