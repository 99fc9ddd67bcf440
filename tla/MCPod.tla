------------------------------- MODULE MCPod --------------------------------
(* Pod for TLC: an owner that asks with a timeout, one that calls On, a reply *)
(* "ra" and a message "n" that replies to nothing.                           *)
EXTENDS Pod

Replies == [m \in Msgs |-> IF m = "ra" THEN "a" ELSE None]
=============================================================================
