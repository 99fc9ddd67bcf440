----------------------------- MODULE PodProofs ------------------------------
(***************************************************************************)
(* Proofs about MsgBuffer and Pod for every limit, every set of messages,  *)
(* and every number of owners that share the pod.                          *)
(*                                                                         *)
(* The buffer: its ring and its map agree, and what Iter yields is the log *)
(* of RecentMessages.  The pod: whose handler is in place, what a wait     *)
(* returns, that a message does not bounce back to its sender, and that a  *)
(* replay leaves out at most the one message that was past the pod.        *)
(***************************************************************************)
EXTENDS Pod, TLAPS, FiniteSetTheorems

(* The message buffer *)

\* The ring is not rotated before it is full, and both cursors are in range.
Shape ==
  /\ size < Limit => startIndex = 0
  /\ size = 0 => nextIndex = 0
  /\ size > 0 => nextIndex < size

Inv == TypeOK /\ Shape

\* Slots hold different messages, and the map holds exactly these.
NoDuplicate == \A i, j \in 0 .. size - 1 : order[i] = order[j] => i = j

MapInv == NoDuplicate /\ msgs = Held

-----------------------------------------------------------------------------

LEMMA InitInv == Init => Inv
  BY LimitAssumption, MsgsAssumption DEF Init, Inv, TypeOK, Shape

LEMMA StepInv == Inv /\ [Next]_vars => Inv'
<1> SUFFICES ASSUME Inv, [Next]_vars
             PROVE  Inv'
  OBVIOUS
<1> USE LimitAssumption DEF Inv, TypeOK, Shape
<1>1. CASE \E m \in Msgs : Push(m)
  <2>1. PICK m \in Msgs : Push(m)
    BY <1>1
  <2>2. CASE PushEvict(m)
    BY <2>1, <2>2 DEF PushEvict, After
  <2>3. CASE PushAppend(m)
    BY <2>1, <2>3 DEF PushAppend
  <2>4. QED
    BY <2>1, <2>2, <2>3 DEF Push
<1>2. CASE NextMsg
  BY <1>2 DEF NextMsg, After
<1>3. CASE UNCHANGED vars
  BY <1>3 DEF vars
<1>4. QED
  BY <1>1, <1>2, <1>3 DEF Next

\* Type correctness, for every Limit and Msgs: indexes are never out of range of
\* the slice and the slice never exceeds the limit.
THEOREM TypeCorrect == Spec => []TypeOK
<1>1. Inv => TypeOK
  BY DEF Inv
<1>2. QED
  BY InitInv, StepInv, <1>1, PTL DEF Spec

\* The cursors of Push, Next and Iter stay inside the slice.
THEOREM CursorsCorrect == Spec => []CursorsInBounds
<1>1. Inv => CursorsInBounds
  BY LimitAssumption DEF Inv, TypeOK, Shape, CursorsInBounds
<1>2. QED
  BY InitInv, StepInv, <1>1, PTL DEF Spec

-----------------------------------------------------------------------------

LEMMA StepMapInv ==
  ASSUME UniqueUUIDs, Inv, MapInv, [Next]_vars
  PROVE  MapInv'
<1> USE LimitAssumption DEF Inv, TypeOK, Shape
<1>1. CASE \E m \in Msgs : Push(m)
  <2>1. PICK m \in Msgs : Push(m)
    BY <1>1
  <2>2. m \notin Held
    BY <2>1 DEF Push
  <2>3. \A i \in 0 .. size - 1 : order[i] # m
    BY <2>2 DEF Held
  <2>4. CASE PushEvict(m)
    <3>1. startIndex \in 0 .. size - 1 /\ size' = size
      BY <2>4 DEF PushEvict
    <3>2. \A i \in 0 .. size - 1 :
            order'[i] = IF i = startIndex THEN m ELSE order[i]
      BY <2>4 DEF PushEvict
    <3>3. NoDuplicate'
      BY <2>3, <3>1, <3>2 DEF NoDuplicate, MapInv
    <3>4. msgs' = Held'
      <4>1. msgs' = (Held \cup {m}) \ {order[startIndex]}
        BY <2>4 DEF PushEvict, MapInv
      <4>2. Held' = {order'[i] : i \in 0 .. size - 1}
        BY <3>1 DEF Held
      <4>3. ASSUME NEW x \in msgs' PROVE x \in Held'
        <5>1. CASE x = m
          BY <3>1, <3>2, <4>2, <5>1
        <5>2. CASE x # m
          <6>1. PICK i \in 0 .. size - 1 : x = order[i]
            BY <4>1, <4>3, <5>2 DEF Held
          <6>2. i # startIndex
            BY <4>1, <4>3, <6>1
          <6>3. QED
            BY <3>2, <4>2, <6>1, <6>2
        <5>3. QED
          BY <5>1, <5>2
      <4>4. ASSUME NEW x \in Held' PROVE x \in msgs'
        <5>1. PICK i \in 0 .. size - 1 : x = order'[i]
          BY <4>2, <4>4
        <5>2. CASE i = startIndex
          BY <2>3, <3>1, <3>2, <4>1, <5>1, <5>2
        <5>3. CASE i # startIndex
          <6>1. x = order[i] /\ x \in Held
            BY <3>2, <5>1, <5>3 DEF Held
          <6>2. x # order[startIndex]
            BY <3>1, <5>3, <6>1 DEF MapInv, NoDuplicate
          <6>3. QED
            BY <4>1, <6>1, <6>2
        <5>4. QED
          BY <5>2, <5>3
      <4>5. QED
        BY <4>3, <4>4
    <3>5. QED
      BY <3>3, <3>4 DEF MapInv
  <2>5. CASE PushAppend(m)
    <3>1. size' = size + 1
      BY <2>5 DEF PushAppend
    <3>2. \A i \in 0 .. size : order'[i] = IF i = size THEN m ELSE order[i]
      BY <2>5 DEF PushAppend
    <3>3. NoDuplicate'
      BY <2>3, <3>1, <3>2 DEF NoDuplicate, MapInv
    <3>4. Held' = {order'[i] : i \in 0 .. size}
      BY <3>1 DEF Held
    <3>5. msgs' = Held \cup {m}
      BY <2>5 DEF PushAppend, MapInv
    <3>6. ASSUME NEW x \in msgs' PROVE x \in Held'
      <4>1. CASE x = m
        BY <3>2, <3>4, <4>1
      <4>2. CASE x # m
        <5>1. PICK i \in 0 .. size - 1 : x = order[i]
          BY <3>5, <3>6, <4>2 DEF Held
        <5>2. QED
          BY <3>2, <3>4, <5>1
      <4>3. QED
        BY <4>1, <4>2
    <3>7. ASSUME NEW x \in Held' PROVE x \in msgs'
      <4>1. PICK i \in 0 .. size : x = order'[i]
        BY <3>4, <3>7
      <4>2. QED
        BY <3>2, <3>5, <4>1 DEF Held
    <3>8. QED
      BY <3>3, <3>6, <3>7 DEF MapInv
  <2>6. QED
    BY <2>1, <2>4, <2>5 DEF Push
<1>2. CASE NextMsg
  BY <1>2 DEF NextMsg, MapInv, NoDuplicate, Held
<1>3. CASE UNCHANGED vars
  BY <1>3 DEF vars, MapInv, NoDuplicate, Held
<1>4. QED
  BY <1>1, <1>2, <1>3 DEF Next

\* As long as no UUID is pushed twice within the buffer, neither Iter nor Next
\* ever yields nil and the map holds nothing the ring has evicted.
THEOREM MapCorrect == UniqueUUIDs => (Spec => []MapMatchesRing)
<1> SUFFICES ASSUME UniqueUUIDs
             PROVE  Spec => []MapMatchesRing
  OBVIOUS
<1>1. Init => MapInv
  BY DEF Init, MapInv, NoDuplicate, Held
<1>2. Inv /\ MapInv /\ [Next]_vars => MapInv'
  BY StepMapInv
<1>3. MapInv => MapMatchesRing
  BY DEF MapInv, MapMatchesRing, NeverNil, MapIsBounded
<1>4. QED
  BY InitInv, StepInv, <1>1, <1>2, <1>3, PTL DEF Spec

-----------------------------------------------------------------------------
(* Refinement: what Iter yields is the log of RecentMessages. *)

LEMMA PushRefines ==
  ASSUME Inv, NEW m \in Msgs, Push(m)
  PROVE  Recent!Push(m)
<1> USE LimitAssumption DEF Inv, TypeOK, Shape
<1>1. CASE PushEvict(m)
  <2>1. size = Limit /\ size' = size /\ startIndex \in 0 .. size - 1
    BY <1>1 DEF PushEvict
  <2>2. \A i \in 0 .. size - 1 : order'[i] = IF i = startIndex THEN m ELSE order[i]
    BY <1>1, <2>1 DEF PushEvict
  <2>3. startIndex' = IF startIndex = size - 1 THEN 0 ELSE startIndex + 1
    BY <1>1 DEF PushEvict, After
  <2>4. ASSUME NEW i \in 1 .. size
        PROVE  order'[Slot(i)'] = IF i = size THEN m ELSE order[Slot(i + 1)]
    <3>1. Slot(i) \in 0 .. size - 1
      BY <2>1 DEF Slot
    <3>2. Slot(i)' = IF i = size THEN startIndex ELSE Slot(i + 1)
      BY <2>1, <2>3 DEF Slot
    <3>3. i # size => Slot(i + 1) \in 0 .. size - 1 /\ Slot(i + 1) # startIndex
      BY <2>1 DEF Slot
    <3>4. QED
      BY <2>1, <2>2, <3>2, <3>3
  <2>5. Iter' = [i \in 1 .. size |-> IF i = size THEN m ELSE Iter[i + 1]]
    <3>1. Iter' = [i \in 1 .. size |-> order'[Slot(i)']]
      BY <2>1 DEF Iter
    <3>2. \A i \in 1 .. size : i # size => Iter[i + 1] = order[Slot(i + 1)]
      BY <2>1 DEF Iter
    <3>3. QED
      BY <2>4, <3>1, <3>2
  <2>6. QED
    BY <2>1, <2>5 DEF Recent!Push
<1>2. CASE PushAppend(m)
  <2>1. size < Limit /\ size' = size + 1 /\ startIndex = 0 /\ startIndex' = 0
    BY <1>2 DEF PushAppend
  <2>2. \A i \in 1 .. size + 1 : Slot(i)' = i - 1
    BY <2>1 DEF Slot
  <2>3. \A i \in 1 .. size : Slot(i) = i - 1
    BY <2>1 DEF Slot
  <2>4. Iter' = [i \in 1 .. size + 1 |-> order'[i - 1]]
    BY <2>1, <2>2 DEF Iter
  <2>5. Iter = [i \in 1 .. size |-> order[i - 1]]
    BY <2>3 DEF Iter
  <2>6. \A i \in 1 .. size + 1 :
          order'[i - 1] = IF i = size + 1 THEN m ELSE order[i - 1]
    BY <1>2 DEF PushAppend
  <2>7. Iter' = [i \in 1 .. size + 1 |-> IF i = size + 1 THEN m ELSE Iter[i]]
    BY <2>4, <2>5, <2>6
  <2>8. QED
    BY <2>1, <2>7 DEF Recent!Push
<1>3. QED
  BY <1>1, <1>2 DEF Push

\* The ring buffer implements the log of recent messages: what Iter replays is
\* the last Limit messages pushed, oldest first, for every Limit.
THEOREM BufferRefinesLog == Spec => ImplementsRecent
<1>1. Init => Recent!Init
  BY DEF Init, Recent!Init, Iter
<1>2. Inv /\ [Next]_vars => [Recent!Next]_<<size, Iter>>
  <2> SUFFICES ASSUME Inv, [Next]_vars
               PROVE  [Recent!Next]_<<size, Iter>>
    OBVIOUS
  <2>1. CASE \E m \in Msgs : Push(m)
    BY <2>1, PushRefines DEF Recent!Next
  <2>2. CASE NextMsg
    BY <2>2 DEF NextMsg, Iter, Slot
  <2>3. CASE UNCHANGED vars
    BY <2>3 DEF vars, Iter, Slot
  <2>4. QED
    BY <2>1, <2>2, <2>3 DEF Next
<1>3. QED
  BY InitInv, StepInv, <1>1, <1>2, PTL DEF Spec, ImplementsRecent, Recent!Spec

-----------------------------------------------------------------------------
(* The pod *)

\* Handlers leave feedback, and hold the lock, only once one has been set; and
\* what is kept for a wait replies to it.
HandlerInv ==
  /\ onFunc # None => once
  /\ \A a \in Asks : reply[a] # None => ReplyTo[reply[a]] = a
  /\ \A a \in Asks : jammed[a] > 0 => reply[a] # None

\* The bus has a message in hand unless it is idle.
BusInv == bus.pc # "idle" => bus.msg \in Msgs

PodInv == Inv /\ PodInvariant /\ HandlerInv /\ BusInv

\* A message sent to the handlers is counted once more for each time it is sent.
LEMMA SentType ==
  ASSUME NEW n \in Nat, NEW log \in [1 .. n -> Msgs], NEW p \in [Msgs -> Nat]
  PROVE  /\ Sent(log, p) \in [Msgs -> Nat]
         /\ \A m \in Msgs : Sent(log, p)[m] >= p[m]
         /\ \A i \in 1 .. n : Sent(log, p)[log[i]] > 0
         /\ \A m \in Msgs : Sent(log, p)[m] > 0 => p[m] > 0 \/ \E i \in 1 .. n : log[i] = m
<1> DEFINE At(m) == {i \in DOMAIN log : log[i] = m}
<1>1. IsFiniteSet(1 .. n)
  BY FS_Interval
<1>2. \A m \in Msgs : IsFiniteSet(At(m)) /\ Cardinality(At(m)) \in Nat
  <2>1. TAKE m \in Msgs
  <2>2. At(m) \in SUBSET (1 .. n)
    OBVIOUS
  <2>3. QED
    BY <1>1, <2>2, FS_Subset, FS_CardinalityType
<1>3. Sent(log, p) = [m \in Msgs |-> p[m] + Cardinality(At(m))]
  BY DEF Sent
<1>4. ASSUME NEW i \in 1 .. n PROVE Cardinality(At(log[i])) > 0
  <2>1. log[i] \in Msgs /\ i \in At(log[i])
    OBVIOUS
  <2>2. Cardinality(At(log[i])) # 0
    BY <1>2, <2>1, FS_EmptySet
  <2>3. Cardinality(At(log[i])) \in Nat
    BY <1>2, <2>1
  <2> HIDE DEF At
  <2>4. QED
    BY <2>2, <2>3
<1>5. ASSUME NEW m \in Msgs, Cardinality(At(m)) # 0 PROVE \E i \in 1 .. n : log[i] = m
  <2>1. At(m) # {}
    BY <1>5, FS_EmptySet
  <2>2. QED
    BY <2>1
<1> HIDE DEF At
<1>6. \A m \in Msgs : Sent(log, p)[m] > 0 => p[m] > 0 \/ Cardinality(At(m)) # 0
  BY <1>2, <1>3
<1>7. QED
  BY <1>2, <1>3, <1>4, <1>5, <1>6

\* Iter yields every message of the ring.
LEMMA IterCovers ==
  ASSUME Inv
  PROVE  /\ Iter \in [1 .. size -> Msgs]
         /\ \A m \in Held : \E i \in 1 .. size : Iter[i] = m
         /\ \A i \in 1 .. size : Iter[i] \in Held
<1> USE LimitAssumption DEF Inv, TypeOK, Shape
<1>1. ASSUME NEW i \in 1 .. size PROVE Slot(i) \in 0 .. size - 1
  BY <1>1 DEF Slot
<1>2. Iter \in [1 .. size -> Msgs]
  BY <1>1 DEF Iter
<1>3. ASSUME NEW m \in Held PROVE \E i \in 1 .. size : Iter[i] = m
  <2>1. PICK j \in 0 .. size - 1 : order[j] = m
    BY DEF Held
  <2> DEFINE i == IF j >= startIndex THEN j - startIndex + 1
                                     ELSE j - startIndex + size + 1
  <2>2. startIndex < size
    OBVIOUS
  <2>3. i \in 1 .. size /\ Slot(i) = j
    BY <2>2 DEF Slot
  <2>4. QED
    BY <2>1, <2>3 DEF Iter
<1>4. \A i \in 1 .. size : Iter[i] \in Held
  BY <1>1 DEF Iter, Held
<1>5. QED
  BY <1>2, <1>3, <1>4

LEMMA ReplayedType ==
  ASSUME Inv, pending \in [Msgs -> Nat], feedback \in Feedback
  PROVE  /\ Replayed \in [Msgs -> Nat]
         /\ \A m \in Msgs : Replayed[m] >= pending[m]
         /\ feedback.replay => \A m \in Held : Replayed[m] > 0
         /\ \A m \in Msgs : Replayed[m] > 0 => pending[m] > 0 \/ m \in Held
<1>1. size \in Nat /\ Held \subseteq Msgs
  BY LimitAssumption DEF Inv, TypeOK, Held
<1>2. /\ Sent(Iter, pending) \in [Msgs -> Nat]
      /\ \A m \in Msgs : Sent(Iter, pending)[m] >= pending[m]
      /\ \A m \in Held : Sent(Iter, pending)[m] > 0
      /\ \A m \in Msgs : Sent(Iter, pending)[m] > 0 => pending[m] > 0 \/ m \in Held
  <2>1. PICK log \in [1 .. size -> Msgs] : log = Iter
    BY IterCovers
  <2>2. /\ Sent(log, pending) \in [Msgs -> Nat]
        /\ \A m \in Msgs : Sent(log, pending)[m] >= pending[m]
        /\ \A i \in 1 .. size : Sent(log, pending)[log[i]] > 0
        /\ \A m \in Msgs : Sent(log, pending)[m] > 0 =>
             pending[m] > 0 \/ \E i \in 1 .. size : log[i] = m
    BY <1>1, SentType
  <2>3. /\ \A m \in Held : \E i \in 1 .. size : log[i] = m
        /\ \A i \in 1 .. size : log[i] \in Held
    BY <2>1, IterCovers
  <2>4. QED
    BY <2>1, <2>2, <2>3
<1>3. \A m \in Msgs : pending[m] >= pending[m]
  OBVIOUS
<1>4. QED
  BY <1>2, <1>3 DEF Replayed

LEMMA PodInitInv == PodInit => PodInv
<1> SUFFICES ASSUME PodInit PROVE PodInv
  OBVIOUS
<1> USE PodAssumption DEF PodInit
<1>1. Inv
  BY InitInv
<1>2. PodTypeOK
  <2>1. feedback \in Feedback /\ bus \in BusStates
    BY DEF NoFeedback, Feedback, IdleBus, BusStates
  <2>2. busChan \in Seq(Msgs)
    OBVIOUS
  <2>3. wait \in [Asks -> WaitStates] /\ reply \in [Asks -> Msgs \cup {None}]
    BY DEF WaitStates
  <2>4. jammed \in [Asks -> Nat] /\ pending \in [Msgs -> Nat]
    OBVIOUS
  <2>5. QED
    BY <2>1, <2>2, <2>3, <2>4 DEF PodTypeOK
<1>3. PodInvariant
  BY <1>2 DEF PodInvariant, NoFeedback, Readers
<1>4. HandlerInv /\ BusInv
  BY DEF HandlerInv, BusInv, IdleBus
<1>5. QED
  BY <1>1, <1>3, <1>4 DEF PodInv

\* The buffer sees Push of the bus and nothing else.
LEMMA BufferStep ==
  ASSUME PodInv, [PodNext]_allVars
  PROVE  [Next]_vars
<1>1. CASE PushMsg
  <2>1. bus.msg \in Msgs
    BY <1>1 DEF PushMsg, PodInv, BusInv
  <2>2. QED
    BY <1>1, <2>1 DEF PushMsg, Next
<1>2. CASE \E a \in Asks : Send(a) \/ AskStep(a) \/ TimedOut(a)
  BY <1>2 DEF Send, AskStep, SendToBus, WaitLock, WaitUntil, Answered, WaitEnds, TimedOut, setOnFunc
<1>3. CASE OnLock \/ On
  BY <1>3 DEF OnLock, On, setOnFunc
<1>4. CASE \E m \in Msgs : Handle(m) \/ Peer(m)
  BY <1>4 DEF Handle, Peer
<1>5. CASE Report \/ Visit \/ CheckAgain
  BY <1>5 DEF Report, Visit, CheckAgain
<1>6. CASE UNCHANGED allVars
  BY <1>6 DEF allVars
<1>7. QED
  BY <1>1, <1>2, <1>3, <1>4, <1>5, <1>6 DEF PodNext, BusStep

\* setOnFunc, whoever calls it: a handler is set, or cleared by its wait.
LEMMA SetTypes ==
  ASSUME PodInv, NEW f \in Asks \cup {None, "On"}, setOnFunc(f)
  PROVE  /\ onFunc' = f /\ writer' = None /\ filter' = {}
         /\ reset' = reset \cup WasSent /\ reset' \subseteq Asks
         /\ feedback' \in Feedback /\ once' \in BOOLEAN
         /\ (f # None \/ once) => once'
         /\ ~once' => ~once /\ feedback' = feedback
         /\ UNCHANGED <<jammed, reports, handled, busVars>>
<1> USE PodAssumption DEF PodInv, PodInvariant, PodTypeOK, setOnFunc, Feedback, WasSent
<1>1. onFunc' = f /\ writer' = None /\ filter' = {} /\ reset' = reset \cup WasSent
  OBVIOUS
<1>2. reset' \subseteq Asks
  BY <1>1
<1>3. feedback' \in Feedback
  OBVIOUS
<1>4. once' \in BOOLEAN /\ ((f # None \/ once) => once')
  OBVIOUS
<1>5. ~once' => ~once /\ feedback' = feedback
  OBVIOUS
<1>6. QED
  BY <1>1, <1>2, <1>3, <1>4, <1>5

LEMMA OwnerSteps ==
  ASSUME PodInv, NEW a \in Asks,
         Send(a) \/ SendToBus(a) \/ WaitLock(a) \/ Answered(a) \/ TimedOut(a)
  PROVE  PodInvariant' /\ HandlerInv' /\ BusInv'
<1> USE PodAssumption
    DEF PodInv, PodInvariant, PodTypeOK, HandlerInv, BusInv, Readers, WaitStates,
        lockVars, podVars, busVars
<1>1. CASE Send(a)
  BY <1>1 DEF Send
<1>2. CASE SendToBus(a)
  <2>1. a \in Msgs /\ busChan' \in Seq(Msgs)
    BY <1>2 DEF SendToBus
  <2>2. QED
    BY <1>2, <2>1 DEF SendToBus
<1>3. CASE WaitLock(a)
  BY <1>3 DEF WaitLock, Lock
<1>4. CASE Answered(a)
  BY <1>4 DEF Answered
<1>5. CASE TimedOut(a)
  BY <1>5 DEF TimedOut
<1>6. QED
  BY <1>1, <1>2, <1>3, <1>4, <1>5

LEMMA SetSteps ==
  ASSUME PodInv
  PROVE  /\ OnLock => PodInvariant' /\ HandlerInv' /\ BusInv'
         /\ On => PodInvariant' /\ HandlerInv' /\ BusInv'
         /\ \A a \in Asks : WaitUntil(a) => PodInvariant' /\ HandlerInv' /\ BusInv'
         /\ \A a \in Asks : WaitEnds(a) => PodInvariant' /\ HandlerInv' /\ BusInv'
<1> USE PodAssumption
    DEF PodInv, PodInvariant, PodTypeOK, HandlerInv, BusInv, Readers, WaitStates,
        lockVars, podVars, busVars
<1>1. ASSUME OnLock PROVE PodInvariant' /\ HandlerInv' /\ BusInv'
  BY <1>1 DEF OnLock, Lock
<1>2. ASSUME On PROVE PodInvariant' /\ HandlerInv' /\ BusInv'
  BY <1>2, SetTypes DEF On
<1>3. ASSUME NEW a \in Asks, WaitUntil(a) PROVE PodInvariant' /\ HandlerInv' /\ BusInv'
  BY <1>3, SetTypes DEF WaitUntil
<1>4. ASSUME NEW a \in Asks, WaitEnds(a) PROVE PodInvariant' /\ HandlerInv' /\ BusInv'
  BY <1>4, SetTypes DEF WaitEnds
<1>5. QED
  BY <1>1, <1>2, <1>3, <1>4

LEMMA HandleStep ==
  ASSUME PodInv, NEW m \in Msgs, Handle(m)
  PROVE  PodInvariant' /\ HandlerInv' /\ BusInv'
<1> USE PodAssumption
    DEF PodInv, PodInvariant, PodTypeOK, HandlerInv, BusInv, Readers, Handle
<1>1. CASE onFunc = None \/ m \in filter
  BY <1>1
<1>2. CASE onFunc # None /\ m \notin filter /\ onFunc # "On" /\ ReplyTo[m] = onFunc
  <2>1. PICK a \in Asks : onFunc = a
    BY <1>2
  <2>2. /\ reply' = [reply EXCEPT ![a] = m] /\ jammed' = [jammed EXCEPT ![a] = @ + 1]
        /\ reports' = reports /\ handled' = handled \cup {m} /\ ReplyTo[m] = a
    BY <1>2, <2>1
  <2>3. /\ reply' \in [Asks -> Msgs \cup {None}] /\ jammed' \in [Asks -> Nat]
        /\ handled' \subseteq Msgs /\ once
    BY <1>2, <2>2
  <2>4. PodTypeOK'
    BY <2>2, <2>3
  <2>5. HandlerInv' /\ BusInv'
    BY <2>2
  <2>6. \A b \in Asks : wait[b] = "answered" => reply'[b] # None /\ ReplyTo[reply'[b]] = b
    BY <2>2
  <2>7. QED
    BY <2>3, <2>4, <2>5, <2>6
<1>3. CASE onFunc # None /\ m \notin filter /\ ~(onFunc # "On" /\ ReplyTo[m] = onFunc)
  BY <1>3
<1>4. QED
  BY <1>1, <1>2, <1>3

LEMMA BusSteps ==
  ASSUME PodInv, (\E m \in Msgs : Peer(m)) \/ Report \/ Visit \/ CheckAgain \/ PushMsg
  PROVE  PodInvariant' /\ HandlerInv' /\ BusInv'
<1> USE PodAssumption
    DEF PodInv, PodInvariant, PodTypeOK, HandlerInv, BusInv, Readers,
        lockVars, podVars, busVars
<1>1. ASSUME NEW m \in Msgs, Peer(m) PROVE PodInvariant' /\ HandlerInv' /\ BusInv'
  BY <1>1 DEF Peer
<1>2. CASE Report
  <2>1. feedback' \in Feedback
    BY <1>2, SMTT(30) DEF Report, Feedback
  <2>2. reports' \in Nat /\ once
    BY <1>2 DEF Report
  <2>3. QED
    BY <1>2, <2>1, <2>2 DEF Report
<1>3. CASE Visit
  <2>1. Head(busChan) \in Msgs /\ Tail(busChan) \in Seq(Msgs)
    BY <1>3 DEF Visit
  <2>2. feedback' \in Feedback /\ feedback'.n = 0
    BY <1>3 DEF Visit, NoFeedback, Feedback
  <2>3. bus' \in BusStates /\ bus'.msg \in Msgs
    BY <1>3, <2>1 DEF Visit, BusStates
  <2>4. pending' \in [Msgs -> Nat]
    <3>1. <<Head(busChan)>> \in [1 .. 1 -> Msgs]
      BY <2>1
    <3>2. Replayed \in [Msgs -> Nat]
      BY ReplayedType
    <3>3. QED
      BY <1>3, <3>1, <3>2, SentType DEF Visit
  <2>5. QED
    BY <1>3, <2>1, <2>2, <2>3, <2>4 DEF Visit
<1>4. CASE CheckAgain
  <2>1. feedback' \in Feedback /\ feedback'.n = 0
    BY <1>4 DEF CheckAgain, NoFeedback, Feedback
  <2>2. bus' \in BusStates /\ bus'.msg \in Msgs
    BY <1>4 DEF CheckAgain, BusStates
  <2>3. pending' \in [Msgs -> Nat] /\ missed' \subseteq Msgs
    BY <1>4, ReplayedType DEF CheckAgain
  <2>4. QED
    BY <1>4, <2>1, <2>2, <2>3 DEF CheckAgain
<1>5. CASE PushMsg
  <2>1. bus' \in BusStates /\ bus'.pc = "idle"
    BY <1>5 DEF PushMsg, IdleBus, BusStates
  <2>2. QED
    BY <1>5, <2>1 DEF PushMsg
<1>6. QED
  BY <1>1, <1>2, <1>3, <1>4, <1>5

LEMMA PodStepInv == PodInv /\ [PodNext]_allVars => PodInv'
<1> SUFFICES ASSUME PodInv, [PodNext]_allVars PROVE PodInv'
  OBVIOUS
<1>1. Inv'
  BY BufferStep, StepInv DEF PodInv
<1>2. CASE UNCHANGED allVars
  BY <1>1, <1>2
  DEF allVars, lockVars, podVars, busVars, PodInv, PodInvariant, PodTypeOK, HandlerInv, BusInv, Readers
<1>3. CASE PodNext
  <2>1. PodInvariant' /\ HandlerInv' /\ BusInv'
    BY <1>3, OwnerSteps, SetSteps, HandleStep, BusSteps DEF PodNext, BusStep, AskStep
  <2>2. QED
    BY <1>1, <2>1 DEF PodInv
<1>4. QED
  BY <1>2, <1>3

\* Push adds its message to the ring and no other.
LEMMA PushHolds ==
  ASSUME Inv, NEW m \in Msgs, Push(m)
  PROVE  Held' \subseteq Held \cup {m}
<1> USE LimitAssumption DEF Inv, TypeOK
<1>1. CASE PushEvict(m)
  <2>1. size' = size /\ \A i \in 0 .. size - 1 : order'[i] \in {order[i], m}
    BY <1>1 DEF PushEvict
  <2>2. QED
    BY <2>1 DEF Held
<1>2. CASE PushAppend(m)
  <2>1. /\ size' = size + 1
        /\ \A i \in 0 .. size : order'[i] = IF i = size THEN m ELSE order[i]
    BY <1>2 DEF PushAppend
  <2>2. \A i \in 0 .. size : i # size => i \in 0 .. size - 1
    OBVIOUS
  <2>3. QED
    BY <2>1, <2>2 DEF Held
<1>3. QED
  BY <1>1, <1>2 DEF Push

-----------------------------------------------------------------------------
(* What a handler is called with *)

\* A message is on the bus, in the buffer, or on its way to a handler.
Seen(m) ==
  \/ \E i \in 1 .. Len(busChan) : busChan[i] = m
  \/ bus.pc # "idle" /\ bus.msg = m
  \/ m \in Held
  \/ pending[m] > 0

\* A message of the pod's own that is seen has been sent, and one that has been
\* sent is filtered, or was sent before a handler was set or cleared.
SentInv ==
  /\ unsent \cap Asks = {}
  /\ \A a \in Asks : Seen(a) => wait[a] # "idle"
  /\ WasSent \subseteq filter \cup reset

\* No wait has begun to set a handler.
Alone == \A a \in Asks : wait[a] \in {"idle", "sending", "sent"}

\* What the pod should have been called with: the buffer and what will be in it.
Passed == Held \cup (IF bus.pc = "idle" THEN {} ELSE {bus.msg})

\* Before On nothing is asked for; until the request is read nothing is missed;
\* from then on what has passed is handled, on its way, or the one message that
\* the replay missed.
ReplayInv ==
  Alone =>
    /\ onFunc = "On" <=> once
    /\ once => owner = "done"
    /\ ~once => ~feedback.replay
    /\ ~once \/ feedback.replay => missed = {}
    /\ once /\ ~feedback.replay =>
         \A m \in Passed \ Asks : m \in handled \/ m \in missed \/ pending[m] > 0
    /\ missed = {} \/ \E m \in Msgs : missed = {m}

Replays == WantsReplay => ReplayInv

LEMMA SentInitInv == PodInit => SentInv /\ NoBounce /\ ReplayInv
<1> SUFFICES ASSUME PodInit PROVE SentInv /\ NoBounce /\ ReplayInv
  OBVIOUS
<1> USE PodAssumption DEF PodInit, Init
<1>1. SentInv /\ NoBounce
  BY DEF SentInv, NoBounce, Seen, WasSent, Held, IdleBus
<1>2. ReplayInv
  BY DEF ReplayInv, NoFeedback
<1>3. QED
  BY <1>1, <1>2

LEMMA SentOne ==
  ASSUME NEW h \in Msgs, NEW p \in [Msgs -> Nat]
  PROVE  /\ \A m \in Msgs : Sent(<<h>>, p)[m] >= p[m]
         /\ Sent(<<h>>, p)[h] > 0
         /\ \A m \in Msgs : Sent(<<h>>, p)[m] > 0 => p[m] > 0 \/ m = h
<1>1. PICK n \in Nat : n = 1
  OBVIOUS
<1>2. PICK log \in [1 .. n -> Msgs] : log = <<h>> /\ log[1] = h
  <2>1. <<h>> \in [1 .. 1 -> Msgs] /\ <<h>>[1] = h
    OBVIOUS
  <2>2. QED
    BY <1>1, <2>1
<1>3. /\ \A m \in Msgs : Sent(log, p)[m] >= p[m]
      /\ \A i \in 1 .. n : Sent(log, p)[log[i]] > 0
      /\ \A m \in Msgs : Sent(log, p)[m] > 0 => p[m] > 0 \/ \E i \in 1 .. n : log[i] = m
  BY SentType
<1>4. \A i : i \in 1 .. n <=> i = 1
  BY <1>1
<1>5. QED
  BY <1>2, <1>3, <1>4

\* Visit sends the head of the channel, after what it replays.
LEMMA VisitSends ==
  ASSUME PodInv, Visit
  PROVE  /\ busChan # <<>> /\ bus'.msg = Head(busChan) /\ bus'.pc = "walked"
         /\ bus'.msg \in Msgs /\ pending'[bus'.msg] > 0
         /\ \A m \in Msgs : pending'[m] >= Replayed[m]
         /\ \A m \in Msgs : pending'[m] > 0 => Replayed[m] > 0 \/ m = Head(busChan)
<1> USE DEF PodInv, PodInvariant, PodTypeOK, Visit
<1>1. Head(busChan) \in Msgs
  OBVIOUS
<1>2. PICK p \in [Msgs -> Nat] : p = Replayed
  BY ReplayedType
<1>3. pending' = Sent(<<Head(busChan)>>, p)
  BY <1>2
<1>4. QED
  BY <1>1, <1>2, <1>3, SentOne

\* A message is seen before it is handled, and first when it is sent.
LEMMA SeenSteps ==
  ASSUME PodInv, [PodNext]_allVars, NEW a \in Asks, unsent \cap Asks = {}, Seen(a)'
  PROVE  Seen(a) \/ wait'[a] # "idle"
<1> USE PodAssumption DEF PodInv, PodInvariant, PodTypeOK, lockVars, podVars, busVars
<1>1. a \in Msgs
  OBVIOUS
<1>2. CASE \E b \in Asks : SendToBus(b)
  <2>1. PICK b \in Asks : SendToBus(b)
    BY <1>2
  <2>2. CASE b = a
    BY <2>1, <2>2 DEF SendToBus
  <2>3. CASE b # a
    <3>1. \A i \in 1 .. Len(busChan') : busChan'[i] = a => i \in 1 .. Len(busChan) /\ busChan[i] = a
      BY <2>1, <2>3 DEF SendToBus
    <3>2. UNCHANGED <<bus, pending, size, order>>
      BY <2>1 DEF SendToBus, vars
    <3>3. QED
      BY <3>1, <3>2 DEF Seen, Held
  <2>4. QED
    BY <2>2, <2>3
<1>3. CASE \E m \in Msgs : Peer(m)
  <2>1. PICK m \in Msgs : Peer(m)
    BY <1>3
  <2>2. m # a
    BY <2>1 DEF Peer
  <2>3. \A i \in 1 .. Len(busChan') : busChan'[i] = a => i \in 1 .. Len(busChan) /\ busChan[i] = a
    BY <2>1, <2>2 DEF Peer
  <2>4. UNCHANGED <<bus, pending, size, order>>
    BY <2>1 DEF Peer, vars
  <2>5. QED
    BY <2>3, <2>4 DEF Seen, Held
<1>4. CASE Visit
  <2>1. UNCHANGED <<size, order>> /\ busChan' = Tail(busChan)
    BY <1>4 DEF Visit, vars
  <2>2. \A i \in 1 .. Len(busChan') : i + 1 \in 1 .. Len(busChan) /\ busChan'[i] = busChan[i + 1]
    BY <1>4, <2>1 DEF Visit
  <2>3. Head(busChan) = busChan[1] /\ 1 \in 1 .. Len(busChan)
    BY <1>4 DEF Visit
  <2>4. bus'.msg = Head(busChan) /\ (pending'[a] > 0 => Replayed[a] > 0 \/ a = Head(busChan))
    BY <1>1, <1>4, VisitSends
  <2>5. Replayed[a] > 0 => pending[a] > 0 \/ a \in Held
    BY <1>1, ReplayedType
  <2>6. QED
    BY <2>1, <2>2, <2>3, <2>4, <2>5 DEF Seen, Held
<1>5. CASE CheckAgain
  <2>1. UNCHANGED <<size, order, busChan>> /\ pending' = Replayed /\ bus.pc # "idle" /\ bus'.msg = bus.msg
    BY <1>5 DEF CheckAgain, vars, BusStates
  <2>2. Replayed[a] > 0 => pending[a] > 0 \/ a \in Held
    BY <1>1, ReplayedType
  <2>3. QED
    BY <2>1, <2>2 DEF Seen, Held
<1>6. CASE PushMsg
  <2>1. UNCHANGED <<busChan, pending>> /\ bus'.pc = "idle" /\ bus.pc # "idle"
    BY <1>6 DEF PushMsg, IdleBus
  <2>2. Held' \subseteq Held \cup {bus.msg}
    BY <1>6, PushHolds DEF PushMsg, BusInv
  <2>3. QED
    BY <2>1, <2>2 DEF Seen
<1>7. CASE \E m \in Msgs : Handle(m)
  <2>1. UNCHANGED <<busChan, bus, size, order>> /\ (pending'[a] > 0 => pending[a] > 0)
    BY <1>1, <1>7 DEF Handle, vars
  <2>2. QED
    BY <2>1 DEF Seen, Held
<1>8. CASE UNCHANGED <<busChan, bus, pending, size, order>>
  BY <1>8 DEF Seen, Held
<1>9. QED
  <2>1. CASE \E b \in Asks : Send(b) \/ WaitLock(b) \/ WaitUntil(b) \/ Answered(b) \/ WaitEnds(b) \/ TimedOut(b)
    BY <1>8, <2>1 DEF Send, WaitLock, WaitUntil, Answered, WaitEnds, TimedOut, setOnFunc, vars
  <2>2. CASE OnLock \/ On \/ Report \/ UNCHANGED allVars
    BY <1>8, <2>2 DEF OnLock, On, Report, setOnFunc, vars, allVars
  <2>3. QED
    BY <1>2, <1>3, <1>4, <1>5, <1>6, <1>7, <2>1, <2>2 DEF PodNext, BusStep, AskStep

\* A pod's own messages stay sent, and remain filtered until a handler is set or
\* cleared.
LEMMA FilterSteps ==
  ASSUME PodInv, [PodNext]_allVars, SentInv
  PROVE  /\ unsent' \subseteq unsent
         /\ \A a \in Asks : wait'[a] = "idle" => wait[a] = "idle"
         /\ WasSent' \subseteq filter' \cup reset'
<1> USE PodAssumption
    DEF PodInv, PodInvariant, PodTypeOK, SentInv, WasSent, lockVars, podVars, busVars
<1>1. CASE \E a \in Asks : Send(a)
  BY <1>1 DEF Send
<1>2. CASE \E a \in Asks : SendToBus(a) \/ WaitLock(a) \/ Answered(a) \/ TimedOut(a)
  BY <1>2 DEF SendToBus, WaitLock, Answered, TimedOut
<1>3. CASE \E a \in Asks : WaitUntil(a) \/ WaitEnds(a)
  <2>1. PICK a \in Asks : WaitUntil(a) \/ WaitEnds(a)
    BY <1>3
  <2>2. wait[a] # "idle" /\ reset' = reset \cup WasSent /\ UNCHANGED unsent
    BY <2>1 DEF WaitUntil, WaitEnds, setOnFunc
  <2>3. wait' = [wait EXCEPT ![a] = "waiting"] \/ wait' = [wait EXCEPT ![a] = "returned"]
    BY <2>1 DEF WaitUntil, WaitEnds
  <2>4. QED
    BY <2>2, <2>3
<1>4. CASE On
  BY <1>4 DEF On, setOnFunc
<1>5. CASE UNCHANGED <<wait, filter, reset>> /\ unsent' \subseteq unsent
  BY <1>5
<1>6. CASE OnLock \/ Report \/ Visit \/ CheckAgain \/ PushMsg \/ UNCHANGED allVars
  BY <1>5, <1>6 DEF OnLock, Report, Visit, CheckAgain, PushMsg, allVars
<1>7. CASE \E m \in Msgs : Handle(m) \/ Peer(m)
  BY <1>5, <1>7 DEF Handle, Peer
<1>8. QED
  BY <1>1, <1>2, <1>3, <1>4, <1>6, <1>7 DEF PodNext, BusStep, AskStep

LEMMA SentStepInv ==
  ASSUME PodInv, [PodNext]_allVars, SentInv, NoBounce
  PROVE  SentInv' /\ NoBounce'
<1>1. SentInv'
  <2>1. ASSUME NEW a \in Asks, Seen(a)' PROVE wait'[a] # "idle"
    <3>1. Seen(a) \/ wait'[a] # "idle"
      BY <2>1, SeenSteps DEF SentInv
    <3>2. QED
      BY <3>1, FilterSteps DEF SentInv
  <2>2. QED
    BY <2>1, FilterSteps DEF SentInv
<1>2. NoBounce'
  <2>1. CASE \E m \in Msgs : Handle(m)
    <3>1. PICK m \in Msgs : Handle(m)
      BY <2>1
    <3>2. reset' = reset /\ (handled' = handled \/ (handled' = handled \cup {m} /\ m \notin filter))
      BY <3>1 DEF Handle
    <3>3. m \in Asks => m \in WasSent
      BY <3>1 DEF Handle, SentInv, Seen, WasSent
    <3>4. QED
      BY <3>2, <3>3 DEF NoBounce, SentInv
  <2>2. CASE handled' = handled /\ reset \subseteq reset'
    BY <2>2 DEF NoBounce
  <2>3. CASE \E a \in Asks : Send(a) \/ AskStep(a) \/ TimedOut(a)
    BY <2>2, <2>3
    DEF Send, AskStep, SendToBus, WaitLock, WaitUntil, Answered, WaitEnds, TimedOut, setOnFunc
  <2>4. CASE OnLock \/ On \/ Report \/ BusStep \/ UNCHANGED allVars
    BY <2>2, <2>4
    DEF OnLock, On, Report, BusStep, Visit, CheckAgain, PushMsg, setOnFunc, allVars, podVars
  <2>5. CASE \E m \in Msgs : Peer(m)
    BY <2>2, <2>5 DEF Peer, podVars
  <2>6. QED
    BY <2>1, <2>3, <2>4, <2>5 DEF PodNext
<1>3. QED
  BY <1>1, <1>2

-----------------------------------------------------------------------------
(* The replay *)

\* A wait that has begun to set a handler never goes back.
LEMMA AloneSteps ==
  ASSUME PodInv, PodNext, Alone'
  PROVE  /\ Alone
         /\ \/ \E a \in Asks : Send(a) \/ SendToBus(a)
            \/ OnLock \/ On \/ Report \/ BusStep
            \/ \E m \in Msgs : Handle(m) \/ Peer(m)
<1> USE PodAssumption
    DEF PodInv, PodInvariant, PodTypeOK, Alone, lockVars, podVars, busVars
<1>1. ASSUME NEW a \in Asks PROVE ~WaitLock(a) /\ ~WaitUntil(a) /\ ~Answered(a) /\ ~WaitEnds(a) /\ ~TimedOut(a)
  <2>1. wait'[a] \in {"idle", "sending", "sent"}
    OBVIOUS
  <2>2. \A s : wait' = [wait EXCEPT ![a] = s] => s \in {"idle", "sending", "sent"}
    BY <2>1
  <2>3. ~WaitLock(a)
    BY <2>1 DEF WaitLock
  <2>4. ~WaitUntil(a) /\ ~Answered(a)
    BY <2>2 DEF WaitUntil, Answered
  <2>5. ~WaitEnds(a) /\ ~TimedOut(a)
    BY <2>2 DEF WaitEnds, TimedOut
  <2>6. QED
    BY <2>3, <2>4, <2>5
<1>2. ASSUME NEW a \in Asks, Send(a) \/ SendToBus(a) PROVE Alone
  BY <1>2 DEF Send, SendToBus
<1>3. ASSUME OnLock \/ On \/ Report \/ BusStep PROVE Alone
  BY <1>3 DEF OnLock, On, Report, BusStep, Visit, CheckAgain, PushMsg
<1>4. ASSUME NEW m \in Msgs, Handle(m) \/ Peer(m) PROVE Alone
  BY <1>4 DEF Handle, Peer
<1>5. QED
  BY <1>1, <1>2, <1>3, <1>4 DEF PodNext, AskStep

LEMMA ReplayStepInv ==
  ASSUME WantsReplay, PodInv, [PodNext]_allVars, ReplayInv
  PROVE  ReplayInv'
<1> SUFFICES ASSUME Alone' PROVE ReplayInv'
  BY DEF ReplayInv
<1>1. CASE UNCHANGED allVars
  BY <1>1 DEF allVars, vars, lockVars, podVars, busVars, ReplayInv, Passed, Held, Alone
<1>2. CASE PodNext
  <2>1. /\ Alone
        /\ \/ \E a \in Asks : Send(a) \/ SendToBus(a)
           \/ OnLock \/ On \/ Report \/ BusStep
           \/ \E m \in Msgs : Handle(m) \/ Peer(m)
    BY <1>2, AloneSteps
  <2> USE <2>1, PodAssumption
      DEF PodInv, PodInvariant, PodTypeOK, ReplayInv, lockVars, podVars, busVars
  <2>2. CASE \E a \in Asks : Send(a) \/ SendToBus(a)
    <3>1. UNCHANGED <<once, onFunc, owner, missed, handled, pending, feedback, bus, size, order>>
      BY <2>2 DEF Send, SendToBus, vars
    <3>2. QED
      BY <3>1 DEF Passed, Held
  <2>3. CASE OnLock
    BY <2>3 DEF OnLock, vars, Passed, Held
  <2>4. CASE On
    <3>1. ~once /\ missed = {} /\ missed' = {}
      BY <2>4 DEF On, setOnFunc
    <3>2. feedback'.replay /\ once' /\ onFunc' = "On" /\ owner' = "done"
      BY <2>4, <3>1 DEF On, setOnFunc
    <3>3. QED
      BY <3>1, <3>2
  <2>5. CASE Report
    <3>1. feedback'.replay = feedback.replay
      BY <2>5 DEF Report, Feedback
    <3>2. UNCHANGED <<once, onFunc, owner, missed, handled, pending, bus, size, order>>
      BY <2>5 DEF Report, vars
    <3>3. QED
      BY <3>1, <3>2 DEF Passed, Held
  <2>6. CASE \E m \in Msgs : Peer(m)
    BY <2>6 DEF Peer, vars, Passed, Held
  <2>7. CASE \E m \in Msgs : Handle(m)
    <3>1. PICK m \in Msgs : Handle(m)
      BY <2>7
    <3>2. UNCHANGED <<once, onFunc, owner, missed, feedback, bus, size, order>>
      BY <3>1 DEF Handle, vars
    <3>3. handled \subseteq handled' /\ \A k \in Msgs : k # m => pending'[k] = pending[k]
      BY <3>1 DEF Handle
    <3>4. onFunc = "On" /\ m \notin Asks => m \in handled'
      BY <3>1 DEF Handle
    <3>5. Passed' = Passed /\ Passed \subseteq Msgs
      BY <3>2 DEF Passed, Held, BusInv, Inv, TypeOK
    <3>6. QED
      BY <3>2, <3>3, <3>4, <3>5
  <2>8. CASE Visit
    <3>1. UNCHANGED <<once, onFunc, owner, missed, handled, size, order>> /\ ~feedback'.replay
      BY <2>8 DEF Visit, vars, NoFeedback
    <3>2. Held \subseteq Msgs /\ Passed' = Held \cup {bus'.msg}
      BY <2>8, <3>1, VisitSends, SMTT(30) DEF Passed, Held, Inv, TypeOK
    <3>3. /\ pending'[bus'.msg] > 0
          /\ \A m \in Msgs : pending[m] > 0 => pending'[m] > 0
          /\ feedback.replay => \A m \in Held : pending'[m] > 0
      <4>1. \A m \in Msgs : pending'[m] \in Nat /\ Replayed[m] \in Nat /\ pending[m] \in Nat
        BY <2>8, BusSteps, ReplayedType
      <4>2. QED
        BY <2>8, <3>2, <4>1, VisitSends, ReplayedType, SMTT(30)
    <3>4. ASSUME once, NEW m \in Passed' \ Asks PROVE m \in handled \/ m \in missed \/ pending'[m] > 0
      BY <3>2, <3>3, <3>4 DEF Passed
    <3>5. QED
      BY <3>1, <3>4
  <2>9. CASE CheckAgain
    <3>1. UNCHANGED <<once, onFunc, owner, handled, size, order>> /\ ~feedback'.replay
      BY <2>9 DEF CheckAgain, vars, NoFeedback
    <3>2. /\ bus.pc # "idle" /\ bus'.msg = bus.msg /\ bus'.pc # "idle" /\ bus.msg \in Msgs
          /\ Held \subseteq Msgs /\ Passed' = Passed /\ Passed = Held \cup {bus.msg}
      BY <2>9, <3>1 DEF CheckAgain, BusInv, BusStates, Passed, Held, Inv, TypeOK
    <3>3. /\ \A m \in Msgs : pending[m] > 0 => pending'[m] > 0
          /\ feedback.replay => \A m \in Held : pending'[m] > 0
      <4>1. \A m \in Msgs : Replayed[m] \in Nat /\ pending[m] \in Nat
        BY ReplayedType
      <4>2. QED
        BY <2>9, <3>2, <4>1, ReplayedType DEF CheckAgain
    <3>4. missed' = IF feedback.replay THEN missed \cup {bus.msg} ELSE missed
      BY <2>9 DEF CheckAgain
    <3>5. missed' = {} \/ \E m \in Msgs : missed' = {m}
      <4>1. CASE feedback.replay
        <5>1. missed = {}
          BY <4>1
        <5>2. missed' = {bus.msg}
          BY <3>4, <4>1, <5>1
        <5>3. QED
          BY <3>2, <5>2
      <4>2. CASE ~feedback.replay
        BY <3>4, <4>2
      <4>3. QED
        BY <4>1, <4>2
    <3>6. ~once => missed' = {}
      BY <3>4
    <3>7. ASSUME once, NEW m \in Passed \ Asks PROVE m \in handled \/ m \in missed' \/ pending'[m] > 0
      BY <3>2, <3>3, <3>4, <3>7
    <3>8. QED
      BY <3>1, <3>2, <3>5, <3>6, <3>7
  <2>10. CASE PushMsg
    <3>1. UNCHANGED <<once, onFunc, owner, handled, missed, pending, feedback>>
      BY <2>10 DEF PushMsg
    <3>2. Passed' \subseteq Passed
      BY <2>10, PushHolds DEF PushMsg, IdleBus, Passed, BusInv
    <3>3. QED
      BY <3>1, <3>2
  <2>11. QED
    BY <2>2, <2>3, <2>4, <2>5, <2>6, <2>7, <2>8, <2>9, <2>10 DEF BusStep
<1>3. QED
  BY <1>1, <1>2

-----------------------------------------------------------------------------
(* The theorems *)

\* PodInvariant for any number of owners that send, wait and listen at once: whose
\* handler is in place, one writer at a time, room for the request for a replay,
\* and waitOnReply with a reply to its own message.
THEOREM PodCorrect == FairPodSpec => []PodInvariant
<1>1. PodInv => PodInvariant
  BY DEF PodInv
<1>2. QED
  BY PodInitInv, PodStepInv, <1>1, PTL DEF FairPodSpec, PodSpec

\* A message of the pod's own reaches a handler only if the handler was set, or
\* another one cleared, after it was sent.
THEOREM NeverBounces == FairPodSpec => []NoBounce
<1>1. SentInv /\ NoBounce /\ PodInv /\ [PodNext]_allVars => (SentInv /\ NoBounce)'
  BY SentStepInv
<1>2. PodInit => SentInv /\ NoBounce
  BY SentInitInv
<1>3. QED
  BY PodInitInv, PodStepInv, <1>1, <1>2, PTL DEF FairPodSpec, PodSpec

\* The replay to a pod that calls On leaves out its own messages and at most the
\* one message that was past the pod as the request was read, for every size of
\* the buffer.
THEOREM ReplayCorrect == FairPodSpec => []ReplayCoversRecent
<1>1. PodInv /\ Replays => ReplayCoversRecent
  <2> SUFFICES ASSUME PodInv, WantsReplay, ReplayInv, Settled, onFunc = "On", ~feedback.replay,
                      \A a \in Asks : wait[a] \in {"idle", "sent"}
               PROVE  Held \ (handled \cup Asks) \subseteq missed /\ Cardinality(missed) <= 1
    BY DEF ReplayCoversRecent, Replays
  <2>1. Alone
    BY DEF Alone
  <2>2. once /\ Passed = Held /\ Held \subseteq Msgs
    BY <2>1 DEF ReplayInv, Settled, Passed, PodInv, Inv, TypeOK, Held
  <2>3. \A m \in Msgs : pending[m] = 0
    BY DEF Settled
  <2>4. Held \ (handled \cup Asks) \subseteq missed
    BY <2>1, <2>2, <2>3 DEF ReplayInv
  <2>5. Cardinality(missed) \in {0, 1}
    BY <2>1, FS_EmptySet, FS_Singleton DEF ReplayInv
  <2>6. QED
    BY <2>4, <2>5
<1>2. PodInv /\ Replays /\ [PodNext]_allVars => Replays'
  BY ReplayStepInv DEF Replays
<1>3. PodInit => Replays
  BY SentInitInv DEF Replays
<1>4. QED
  BY PodInitInv, PodStepInv, <1>1, <1>2, <1>3, PTL DEF FairPodSpec, PodSpec

\* What the bus of a pod does to the buffer is what Spec allows, so that all that
\* is proved of the buffer holds as it is used.
THEOREM PodUsesBuffer == FairPodSpec => Spec
<1>1. PodInit => Init
  BY DEF PodInit
<1>2. PodInv /\ [PodNext]_allVars => [Next]_vars
  BY BufferStep
<1>3. QED
  BY PodInitInv, PodStepInv, <1>1, <1>2, PTL DEF FairPodSpec, PodSpec, Spec
=============================================================================
