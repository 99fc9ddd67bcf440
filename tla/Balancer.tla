------------------------------ MODULE Balancer ------------------------------
(***************************************************************************)
(* foundation/bus/bus/tunnel/balancer.go: the round-robin list of peers    *)
(* that advertise a capability.  Every method runs under the mutex of the  *)
(* balancer.  The slice is indexed from 0, as in the code.                 *)
(***************************************************************************)
EXTENDS Integers, FiniteSets

CONSTANTS
  UUIDs,     \* peers
  MaxLen     \* bound: entries in the list

VARIABLES
  len,       \* len(b.uuids)
  uuids,     \* b.uuids
  index,     \* b.index
  turns      \* history: per peer, calls of Next since it was last chosen

vars == <<len, uuids, index, turns>>

TypeOK ==
  /\ len \in 0 .. MaxLen
  /\ uuids \in [0 .. len - 1 -> UUIDs]
  /\ index \in 0 .. MaxLen
  /\ turns \in [UUIDs -> 0 .. MaxLen]

Init ==
  /\ len = 0
  /\ uuids = [i \in 0 .. -1 |-> CHOOSE u \in UUIDs : TRUE]
  /\ index = 0
  /\ turns = [u \in UUIDs |-> 0]

Listed == {uuids[i] : i \in 0 .. len - 1}
NoTurns == [u \in UUIDs |-> 0]

Add(u) ==
  /\ len < MaxLen
  /\ len' = len + 1
  /\ uuids' = [i \in 0 .. len |-> IF i = len THEN u ELSE uuids[i]]
  /\ turns' = NoTurns
  /\ UNCHANGED index

\* The places of the entries that stay, in order.
Kept(u) == {i \in 0 .. len - 1 : uuids[i] # u}
Place(u, i) == CHOOSE j \in Kept(u) : Cardinality({k \in Kept(u) : k < j}) = i

\* Every entry equal to u goes; an index that is too large moves to the middle.
Remove(u) ==
  LET n == Cardinality(Kept(u)) IN
  /\ len' = n
  /\ uuids' = [i \in 0 .. n - 1 |-> uuids[Place(u, i)]]
  /\ index' = IF index >= n - 1 THEN n \div 2 ELSE index
  /\ turns' = NoTurns

\* Next on an empty list returns "" and changes nothing.
NextUUID ==
  /\ len > 0
  /\ index' = IF index >= len - 1 THEN 0 ELSE index + 1
  /\ turns' = [u \in UUIDs |-> IF u = uuids[index] \/ u \notin Listed THEN 0 ELSE turns[u] + 1]
  /\ UNCHANGED <<len, uuids>>

Next == (\E u \in UUIDs : Add(u) \/ Remove(u)) \/ NextUUID

Spec == Init /\ [][Next]_vars

(* Properties *)

\* b.uuids[b.index] never panics: the index is in range after any mixture of
\* Add, Remove and Next, the empty list and a list that shrinks to one included.
IndexInBounds == len > 0 => index < len

\* Round robin: while the list does not change, no peer waits for more calls of
\* Next than the list has entries.
RoundRobin == \A u \in Listed : turns[u] < len
=============================================================================
