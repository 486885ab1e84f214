---------------------------- MODULE MCTransport -----------------------------
(***************************************************************************)
(* The transport for TLC.  The bounds let two messages of different sizes  *)
(* follow each other in each direction, each of them split in any way.     *)
(***************************************************************************)
EXTENDS Transport
=============================================================================
