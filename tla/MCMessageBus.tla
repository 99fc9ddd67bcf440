---------------------------- MODULE MCMessageBus ----------------------------
(* MessageBus for TLC: the hub's pod sends to two others.                    *)
EXTENDS MessageBus

FromHub == [m \in Msgs |-> Hub]
Types == [m \in Msgs |-> IF m = "a" THEN "t" ELSE "u"]
ThirdWantsT == [p \in 1 .. NumPods |-> IF p = 3 THEN "t" ELSE "any"]
=============================================================================
