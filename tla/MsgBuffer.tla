----------------------------- MODULE MsgBuffer ------------------------------
(***************************************************************************)
(* foundation/bus/bus/msgbuffer.go: the ring buffer of recent messages     *)
(* that is replayed to a new pod.  `order` is a slice of UUIDs indexed     *)
(* from 0, `msgs` a map from UUID to message; a message is its UUID.       *)
(***************************************************************************)
EXTENDS Integers, FiniteSets

CONSTANTS
  Msgs,          \* message UUIDs
  Limit,         \* defaultBufferSize (128 in the code)
  UniqueUUIDs    \* TRUE: no UUID is pushed while the buffer still holds it

ASSUME LimitAssumption == Limit \in Nat \ {0}
ASSUME MsgsAssumption == Msgs # {}
ASSUME UniqueAssumption == UniqueUUIDs \in BOOLEAN

VARIABLES
  size,          \* len(m.order)
  order,         \* m.order
  msgs,          \* the keys of m.msgs
  startIndex,
  nextIndex,
  got            \* what Next returned last: a message, or "nil"

vars == <<size, order, msgs, startIndex, nextIndex, got>>

TypeOK ==
  /\ size \in 0 .. Limit
  /\ order \in [0 .. size - 1 -> Msgs]
  /\ msgs \subseteq Msgs
  /\ startIndex \in 0 .. Limit - 1
  /\ nextIndex \in 0 .. Limit - 1
  /\ got \in Msgs \cup {"nil"}

Init ==
  /\ size = 0
  /\ order = [i \in 0 .. -1 |-> CHOOSE m \in Msgs : TRUE]
  /\ msgs = {}
  /\ startIndex = 0
  /\ nextIndex = 0
  /\ got = "nil"

Held == {order[i] : i \in 0 .. size - 1}

\* The index after i, looping over a slice of n elements.
After(i, n) == IF i = n - 1 THEN 0 ELSE i + 1

\* Fault: the slot is overwritten before its old UUID is deleted from the map.
PushEvictLate(m) ==
  /\ size = Limit
  /\ msgs' = msgs \ {m}
  /\ order' = [order EXCEPT ![startIndex] = m]
  /\ startIndex' = After(startIndex, size)
  /\ UNCHANGED <<size, nextIndex, got>>

\* The buffer is full: the slot of the oldest message takes the new one.  The
\* map entry of the oldest is deleted after the new one has been stored.
PushEvict(m) ==
  /\ size = Limit
  /\ msgs' = (msgs \cup {m}) \ {order[startIndex]}
  /\ order' = [order EXCEPT ![startIndex] = m]
  /\ startIndex' = After(startIndex, size)
  /\ UNCHANGED <<size, nextIndex, got>>

PushAppend(m) ==
  /\ size # Limit
  /\ msgs' = msgs \cup {m}
  /\ order' = [i \in 0 .. size |-> IF i = size THEN m ELSE order[i]]
  /\ size' = size + 1
  /\ UNCHANGED <<startIndex, nextIndex, got>>

Push(m) ==
  /\ UniqueUUIDs => m \notin Held
  /\ PushEvict(m) \/ PushAppend(m)

\* Next: the shared cursor over the slots.
NextMsg ==
  /\ size > 0
  /\ got' = IF order[nextIndex] \in msgs THEN order[nextIndex] ELSE "nil"
  /\ nextIndex' = After(nextIndex, size)
  /\ UNCHANGED <<size, order, msgs, startIndex>>

Next == (\E m \in Msgs : Push(m)) \/ NextMsg

Spec == Init /\ [][Next]_vars

-----------------------------------------------------------------------------
\* Fault: Iter starts at the first slot.
SlotFirst(i) == i - 1

(* Iter walks from startIndex once around the slots: its i-th call (from 1)  *)
(* is for the slot below.                                                    *)
Slot(i) == IF startIndex + i - 1 < size THEN startIndex + i - 1
                                        ELSE startIndex + i - 1 - size
Iter == [i \in 1 .. size |-> order[Slot(i)]]

Recent == INSTANCE RecentMessages WITH count <- size, log <- Iter

(* Properties *)

\* Iter and Next hand out messages, never nil: every UUID in order has its
\* message in the map.  replayNext sends what Iter yields to a pod, whose filter
\* calls a method of it.
NeverNil == Held \subseteq msgs

\* The map does not outgrow the ring: an evicted message is forgotten.
MapIsBounded == msgs \subseteq Held

\* Push: every slot of the ring leads to a message of the map, so that Iter never
\* hands out nil, and the map keeps no message that the ring has evicted.
MapMatchesRing == NeverNil /\ MapIsBounded

\* The cursors stay inside the slice through growth and wrap-around.
CursorsInBounds == size > 0 => startIndex < size /\ nextIndex < size

\* What Iter yields is the log of the last Limit messages, oldest first.
ImplementsRecent == Recent!Spec
=============================================================================
