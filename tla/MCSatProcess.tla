---------------------------- MODULE MCSatProcess ----------------------------
(* SatProcess for TLC: one connection, to one peer.                          *)
EXTENDS SatProcess

CONSTANTS p1, c1

ToPeer == [c \in Conns |-> p1]
=============================================================================
