------------------------------- MODULE MCHub --------------------------------
(* Hub for TLC: which connection leads to which peer.                        *)
EXTENDS Hub

CONSTANTS p1, p2, c1, c2, c3

\* Two connections to one peer and one to another.
Doubled == [c \in Conns |-> IF c = c3 THEN p2 ELSE p1]
=============================================================================
