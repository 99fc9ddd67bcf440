--------------------------- MODULE RecentMessages ---------------------------
(***************************************************************************)
(* What MsgBuffer promises to the bus: a log of the last Limit messages,   *)
(* oldest first.  "Oldest messages are automatically evicted as new ones   *)
(* are added past said limit."                                             *)
(***************************************************************************)
EXTENDS Naturals

CONSTANTS Msgs, Limit

VARIABLES
  count,    \* how many messages the log holds
  log       \* the messages, log[1] is the oldest

TypeOK == count \in 0 .. Limit /\ log \in [1 .. count -> Msgs]

Init == count = 0 /\ log = [i \in 1 .. 0 |-> CHOOSE m \in Msgs : TRUE]

Push(m) ==
  \/ /\ count < Limit
     /\ count' = count + 1
     /\ log' = [i \in 1 .. count + 1 |-> IF i = count + 1 THEN m ELSE log[i]]
  \/ /\ count = Limit
     /\ count' = count
     /\ log' = [i \in 1 .. count |-> IF i = count THEN m ELSE log[i + 1]]

Next == \E m \in Msgs : Push(m)

Spec == Init /\ [][Next]_<<count, log>>
=============================================================================
