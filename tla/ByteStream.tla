----------------------------- MODULE ByteStream -----------------------------
(***************************************************************************)
(* What the client's transport promises to the code above it: two streams  *)
(* of bytes, one for each direction.  Everything that is written arrives   *)
(* in order and once; a read returns exactly the bytes that follow those   *)
(* of the read before it, or does not return.                              *)
(***************************************************************************)
EXTENDS Naturals, SequencesExt

VARIABLES
  written,   (* the bytes handed over to be sent                *)
  arrived,   (* those of them that were accepted for the peer   *)
  sent,      (* the bytes the peer sent                         *)
  read,      (* those of them that were returned to the caller  *)
  link       (* "new", then "up" while connected, then "down"   *)

vars == <<written, arrived, sent, read, link>>

Put ==
  /\ link = "up"
  /\ IsStrictPrefix(written, written')
  /\ UNCHANGED <<arrived, sent, read, link>>

Arrive ==
  /\ link = "up"
  /\ IsStrictPrefix(arrived, arrived') /\ IsPrefix(arrived', written)
  /\ UNCHANGED <<written, sent, read, link>>

Feed ==
  /\ IsStrictPrefix(sent, sent')
  /\ UNCHANGED <<written, arrived, read, link>>

Get ==
  /\ link = "up"
  /\ IsStrictPrefix(read, read') /\ IsPrefix(read', sent)
  /\ UNCHANGED <<written, arrived, sent, link>>

Connect == /\ link = "new" /\ link' = "up"
           /\ UNCHANGED <<written, arrived, sent, read>>

Disconnect == /\ link # "down" /\ link' = "down"
              /\ UNCHANGED <<written, arrived, sent, read>>

Init ==
  /\ written = <<>> /\ arrived = <<>> /\ sent = <<>> /\ read = <<>>
  /\ link = "new"

Next == Put \/ Arrive \/ Feed \/ Get \/ Connect \/ Disconnect

Spec == Init /\ [][Next]_vars
=============================================================================
