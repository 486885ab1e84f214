----------------------------- MODULE MCSockets ------------------------------
(* A small instance of Sockets: one active and one passive socket, which are *)
(* made, closed and deleted again and again.                                *)
EXTENDS Sockets

CONSTANTS a1, p1

MC_Active      == {a1}
MC_Passive     == {p1}
MC_Descriptors == 0..1
=============================================================================
