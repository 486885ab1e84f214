----------------------------- MODULE MCSession ------------------------------
(***************************************************************************)
(* A session for TLC: two sizes of team, so that a team of the wrong size  *)
(* can be sent, and two or three contexts, so that one can be on its way   *)
(* while another is answered.                                              *)
(***************************************************************************)
EXTENDS Session
=============================================================================
