----------------------------- MODULE MessageBus -----------------------------
(***************************************************************************)
(* foundation/bus/bus: the message bus goroutine (messagebus.go), the ring *)
(* of connections it walks (pool.go, podconnection.go) and the pods at the *)
(* other end (pod.go, filter.go).                                          *)
(*                                                                         *)
(* For every message the bus goroutine walks once around the ring.  The    *)
(* pool's mutex is taken and released by each of peek, next, deleteNext    *)
(* and insert, so a pod can be connected between any two of them: the walk *)
(* is split into one action per critical section.  Sends are goroutines,   *)
(* the pod's channel is drained into goroutines, and handlers report back  *)
(* through a feedback channel the bus reads when it is about to visit the  *)
(* pod again; none of this is ordered, so all three are bags.              *)
(***************************************************************************)
EXTENDS Integers, Sequences, FiniteSets

CONSTANTS
  NumPods,            \* pods that may be connected; 1 is the hub's own pod
  Msgs,               \* messages, by UUID
  Sender,             \* [Msgs -> Pods]: who sends each of them
  MsgType,            \* [Msgs -> Types]
  Wants,              \* [Pods -> Types \cup {AnyType}]: OnType's type, or On
  AnyType,
  Replayers,          \* pods made by ConnectWithReplay
  Failing,            \* pods whose onFunc may return an error
  Leaving,            \* pods that may call Disconnect
  HighWaterMark,      \* highWaterMark (64 in the code)
  BufferLimit,        \* defaultBufferSize (128 in the code)
  MaxHandled          \* bound: handler runs per pod and message

Pods == 1 .. NumPods
Hub == 1

ASSUME BusAssumption ==
  /\ NumPods \in Nat \ {0}
  /\ Sender \in [Msgs -> Pods]
  /\ Wants \in [Pods -> {AnyType} \cup {MsgType[m] : m \in Msgs}]
  /\ HighWaterMark \in Nat \ {0} /\ BufferLimit \in Nat \ {0} /\ MaxHandled \in Nat
  /\ Replayers \cup Failing \cup Leaving \subseteq Pods \ {Hub}

VARIABLES
  next,       \* podConnection.next, 0 for nil: the ring
  current,    \* connectionPool.current, 0 for nil
  maxID,      \* connectionPool.maxID: pods 1 .. maxID have been connected
  connected,  \* podConnection.connected
  failed,     \* podConnection.failed
  pending,    \* messages on their way to a pod's handler
  feedback,   \* the pod's feedbackChan
  pod,        \* the pod: onFunc, its filter, dead
  unsent,     \* messages not yet given to Send
  busChan,    \* messages waiting for the bus
  buffer,     \* MsgBuffer, oldest message first
  bus,        \* the bus goroutine: where it is and its local variables; astray is
              \* history: another connection was cut out than the one that was
              \* checked, or than the one that was peeked at (Swapped, Misled)
  handled,    \* history: handler runs per pod and message
  owed,       \* history: messages whose last handler run at a pod failed
  visits      \* history: how often the message on the bus was sent to a pod

poolVars == <<next, current, maxID, connected>>
podVars  == <<pod, unsent, handled, owed>>
busVars == <<poolVars, failed, pending, feedback, podVars, busChan, buffer, bus, visits>>

None == 0
NoMsgs == [m \in Msgs |-> 0]
NoFeedback == [success |-> FALSE, replay |-> FALSE, disconnect |-> FALSE, failed |-> NoMsgs]
NewPod == [on |-> FALSE, denied |-> {}, type |-> AnyType, dead |-> FALSE, asked |-> FALSE]
IdleBus == [pc |-> "idle", walk |-> FALSE, msg |-> "nil", start |-> None, peeked |-> None,
            cand |-> None, status |-> NoFeedback, over |-> FALSE, astray |-> FALSE]

Bag == [Msgs -> Nat]
FeedbackType == [success : BOOLEAN, replay : BOOLEAN, disconnect : BOOLEAN, failed : Bag]

PodType == [on : BOOLEAN, denied : SUBSET Msgs, type : {AnyType} \cup {MsgType[m] : m \in Msgs},
            dead : BOOLEAN, asked : BOOLEAN]
BusType == [pc : {"idle", "peek", "check", "act", "advance", "send"}, walk : BOOLEAN,
            msg : Msgs \cup {"nil"}, start : Pods \cup {None}, peeked : Pods \cup {None},
            cand : Pods \cup {None}, status : FeedbackType, over : BOOLEAN, astray : BOOLEAN]

BusTypeOK ==
  /\ next \in [Pods -> Pods \cup {None}]
  /\ current \in Pods \cup {None}
  /\ maxID \in 1 .. NumPods
  /\ connected \in [Pods -> BOOLEAN]
  /\ failed \in [Pods -> Bag] /\ pending \in [Pods -> Bag] /\ handled \in [Pods -> Bag]
  /\ feedback \in [Pods -> FeedbackType]
  /\ pod \in [Pods -> PodType]
  /\ unsent \subseteq Msgs /\ owed \in [Pods -> SUBSET Msgs]
  /\ busChan \in Seq(Msgs) /\ buffer \in Seq(Msgs)
  /\ bus \in BusType
  /\ visits \in [Pods -> Nat]

\* New() connects the hub's pod before anything else can happen; initHub sets
\* its onFunc once the transport is up.
BusInit ==
  /\ next = [p \in Pods |-> IF p = Hub THEN Hub ELSE None]
  /\ current = Hub
  /\ maxID = 1
  /\ connected = [p \in Pods |-> p = Hub]
  /\ failed = [p \in Pods |-> NoMsgs]
  /\ pending = [p \in Pods |-> NoMsgs]
  /\ feedback = [p \in Pods |-> NoFeedback]
  /\ pod = [p \in Pods |-> NewPod]
  /\ unsent = Msgs
  /\ busChan = <<>>
  /\ buffer = <<>>
  /\ bus = IdleBus
  /\ handled = [p \in Pods |-> NoMsgs]
  /\ owed = [p \in Pods |-> {}]
  /\ visits = [p \in Pods |-> 0]

\* len of a slice that holds b[m] copies of each message m
BagSize(b) == Cardinality(UNION {{m} \X (1 .. b[m]) : m \in Msgs})

-----------------------------------------------------------------------------
(* Pods: what their owners do *)

\* Fault: the new connection points back at the current one.
ConnectShortcut ==
  LET p == maxID + 1 IN
  /\ maxID < NumPods
  /\ maxID' = p
  /\ connected' = [connected EXCEPT ![p] = TRUE]
  /\ next' = [next EXCEPT ![current] = p, ![p] = current]
  /\ UNCHANGED <<current, failed, pending, feedback, podVars, busChan, buffer, bus, visits>>

\* Connect / ConnectWithReplay: insert puts the connection after the current one.
Connect ==
  LET p == maxID + 1 IN
  /\ maxID < NumPods
  /\ maxID' = p
  /\ connected' = [connected EXCEPT ![p] = TRUE]
  /\ IF current = None
       THEN current' = p /\ next' = [next EXCEPT ![p] = p]
       ELSE /\ next' = [next EXCEPT ![current] = p, ![p] = next[current]]
            /\ UNCHANGED current
  /\ UNCHANGED <<failed, pending, feedback, podVars, busChan, buffer, bus, visits>>

\* Send: the pod's own filter refuses the message before it is on the bus.
Send(p, m) ==
  /\ p <= maxID /\ Sender[m] = p /\ m \in unsent
  /\ unsent' = unsent \ {m}
  /\ IF pod[p].dead
       THEN UNCHANGED <<pod, busChan>>
       ELSE /\ pod' = [pod EXCEPT ![p].denied = @ \cup {m}]
            /\ busChan' = Append(busChan, m)
  /\ UNCHANGED <<poolVars, failed, pending, feedback, buffer, bus, handled, owed, visits>>

\* On / OnType: setOnFunc makes a new filter and asks for a replay once.
On(p) ==
  /\ p <= maxID /\ ~pod[p].on
  /\ pod' = [pod EXCEPT ![p].on = TRUE, ![p].denied = {}, ![p].type = Wants[p]]
  /\ feedback' = [feedback EXCEPT ![p].replay = @ \/ p \in Replayers]
  /\ UNCHANGED <<poolVars, failed, pending, unsent, handled, owed, busChan, buffer, bus, visits>>

\* Disconnect: no more sends, and the bus is asked to drop the connection.
Disconnect(p) ==
  /\ p <= maxID /\ p \in Leaving /\ ~pod[p].asked
  /\ pod' = [pod EXCEPT ![p].dead = TRUE, ![p].asked = TRUE]
  /\ feedback' = [feedback EXCEPT ![p].disconnect = TRUE]
  /\ UNCHANGED <<poolVars, failed, pending, unsent, handled, owed, busChan, buffer, bus, visits>>

\* allow: neither the UUID nor the type of the message is filtered out.
Allows(p, m) ==
  /\ m \notin pod[p].denied
  /\ pod[p].type \in {AnyType, MsgType[m]}

\* The goroutine that the pod starts for a message: the onFunc succeeds or fails.
Handle(p, m) ==
  /\ pending[p][m] > 0
  /\ pending' = [pending EXCEPT ![p][m] = @ - 1]
  /\ IF pod[p].on /\ Allows(p, m)
       THEN /\ handled[p][m] < MaxHandled
            /\ handled' = [handled EXCEPT ![p][m] = @ + 1]
            /\ \/ /\ feedback' = [feedback EXCEPT ![p].success = TRUE]
                  /\ owed' = [owed EXCEPT ![p] = @ \ {m}]
               \/ /\ p \in Failing
                  /\ feedback' = [feedback EXCEPT ![p].failed[m] = @ + 1]
                  /\ owed' = [owed EXCEPT ![p] = @ \cup {m}]
       ELSE UNCHANGED <<handled, owed, feedback>>
  /\ UNCHANGED <<poolVars, failed, pod, unsent, busChan, buffer, bus, visits>>

\* A send goroutine that finds its connection closed gives up.
Abandon(p, m) ==
  /\ pending[p][m] > 0 /\ ~connected[p]
  /\ pending' = [pending EXCEPT ![p][m] = @ - 1]
  /\ UNCHANGED <<poolVars, failed, feedback, podVars, busChan, buffer, bus, visits>>

-----------------------------------------------------------------------------
(* The bus goroutine *)

\* podConnection.send, for a bag of messages: nothing is sent on a closed one.
Sent(p, msgs) ==
  [pending EXCEPT ![p] = [m \in Msgs |-> @[m] + IF connected[p] THEN msgs[m] ELSE 0]]

One(m) == [n \in Msgs |-> IF n = m THEN 1 ELSE 0]
BufferBag == [m \in Msgs |-> Cardinality({i \in 1 .. Len(buffer) : buffer[i] = m})]

\* for msg := range b.busChan
Take ==
  /\ bus.pc = "idle" /\ busChan # <<>>
  /\ bus' = [IdleBus EXCEPT !.pc = "peek", !.msg = Head(busChan)]
  /\ busChan' = Tail(busChan)
  /\ visits' = [p \in Pods |-> 0]
  /\ UNCHANGED <<poolVars, failed, pending, feedback, podVars, buffer>>

\* prepareNext: next := c.peek()
PreparePeek ==
  /\ bus.pc = "peek"
  /\ bus' = [bus EXCEPT !.pc = "check", !.cand = next[current]]
  /\ UNCHANGED <<poolVars, failed, pending, feedback, podVars, busChan, buffer, visits>>

\* Fault: one failed message is enough to drop the connection.
checkStatusStrict ==
  LET c == bus.cand  f == feedback[c] IN
  /\ bus.pc = "check"
  /\ failed' = [failed EXCEPT ![c] = [m \in Msgs |-> @[m] + f.failed[m]]]
  /\ feedback' = [feedback EXCEPT ![c] = NoFeedback]
  /\ bus' = [bus EXCEPT !.pc = "act", !.status = f, !.over = f.failed # NoMsgs]
  /\ UNCHANGED <<poolVars, pending, podVars, busChan, buffer, visits>>

\* checkStatus: drain the feedback and keep the failed messages.
checkStatus ==
  LET c == bus.cand  f == feedback[c] IN
  /\ bus.pc = "check"
  /\ failed' = [failed EXCEPT ![c] = [m \in Msgs |-> @[m] + f.failed[m]]]
  /\ feedback' = [feedback EXCEPT ![c] = NoFeedback]
  /\ bus' = [bus EXCEPT !.pc = "act", !.status = f,
                        !.over = BagSize([m \in Msgs |-> failed[c][m] + f.failed[m]]) >= HighWaterMark]
  /\ UNCHANGED <<poolVars, pending, podVars, busChan, buffer, visits>>

\* deleteNext: whatever connection is next now is closed and cut out.
deleteNext ==
  LET n == next[current] IN
  /\ connected' = [connected EXCEPT ![n] = FALSE]
  /\ pod' = [pod EXCEPT ![n].dead = TRUE]
  /\ IF n = current
       THEN current' = None /\ UNCHANGED next
       ELSE next' = [next EXCEPT ![current] = next[n]] /\ UNCHANGED current
  /\ UNCHANGED <<maxID, pending, failed>>

HasError == bus.over \/ bus.status.failed # NoMsgs
MustDelete == bus.over \/ (~HasError /\ bus.status.disconnect)
Swapped == MustDelete /\ next[current] # bus.cand
\* traverse moves its starting point on when the connection that it has peeked at
\* was the starting point, also if prepareNext has removed one that came before it.
Misled == MustDelete /\ bus.walk /\ bus.start = bus.peeked /\ bus.cand # bus.peeked
MustReplay == ~HasError /\ ~bus.status.disconnect /\ bus.status.replay

\* Fault: the failed messages are dropped even when nothing has succeeded.
KeepNextDrops ==
  LET c == bus.cand
  IN /\ UNCHANGED pending
     /\ failed' = [failed EXCEPT ![c] = NoMsgs]
     /\ UNCHANGED <<poolVars, pod>>

\* The rest of prepareNext when the connection stays: replayNext sends to
\* whatever connection is next now, flushFailed to the one that was checked.
KeepNext ==
  LET c == bus.cand
      afterReplay == IF MustReplay THEN Sent(next[current], BufferBag) ELSE pending
  IN /\ pending' = IF bus.status.success
                     THEN [afterReplay EXCEPT ![c] =
                             [m \in Msgs |-> @[m] + IF connected[c] THEN failed[c][m] ELSE 0]]
                     ELSE afterReplay
     /\ failed' = IF bus.status.success THEN [failed EXCEPT ![c] = NoMsgs] ELSE failed
     /\ UNCHANGED <<poolVars, pod>>

\* prepareNext's decision.  Before the walk an error means: try the next one.
\* During the walk it means that the starting point may be gone.
Prepare ==
  /\ bus.pc = "act"
  /\ IF MustDelete THEN deleteNext ELSE KeepNext
  /\ bus' = [bus EXCEPT
               !.pc = IF MustDelete /\ ~bus.walk THEN "peek" ELSE "advance",
               !.start = IF MustDelete /\ bus.walk /\ @ = bus.peeked
                           THEN next'[bus.peeked] ELSE @,
               !.astray = @ \/ Swapped \/ Misled,
               !.status = NoFeedback, !.over = FALSE, !.cand = None]
  /\ UNCHANGED <<feedback, unsent, handled, owed, busChan, buffer, visits>>

\* MsgBuffer.Push as the replay sees it: the last BufferLimit messages.
Push(m) ==
  LET b == Append(buffer, m)
  IN IF Len(b) > BufferLimit THEN Tail(b) ELSE b

\* Fault: the walk ends one connection early.
AdvanceShort ==
  LET c == next[current] IN
  /\ bus.pc = "advance"
  /\ current' = c
  /\ IF bus.walk /\ bus.start \in {c, next[c]}
       THEN bus' = IdleBus /\ buffer' = Push(bus.msg)
       ELSE /\ bus' = [bus EXCEPT !.pc = "send", !.walk = TRUE,
                                  !.start = IF bus.walk THEN @ ELSE c]
            /\ UNCHANGED buffer
  /\ UNCHANGED <<next, maxID, connected, failed, pending, feedback, podVars, busChan, visits>>

\* pool.next(): start the walk there, go on with it, or end it.
Advance ==
  LET c == next[current] IN
  /\ bus.pc = "advance"
  /\ current' = c
  /\ IF bus.walk /\ bus.start = c
       THEN bus' = IdleBus /\ buffer' = Push(bus.msg)
       ELSE /\ bus' = [bus EXCEPT !.pc = "send", !.walk = TRUE,
                                  !.start = IF bus.walk THEN @ ELSE c]
            /\ UNCHANGED buffer
  /\ UNCHANGED <<next, maxID, connected, failed, pending, feedback, podVars, busChan, visits>>

\* traverse: conn.send(msg), then next := b.pool.peek()
SendToCurrent ==
  /\ bus.pc = "send"
  /\ pending' = Sent(current, One(bus.msg))
  /\ visits' = [visits EXCEPT ![current] = @ + 1]
  /\ bus' = [bus EXCEPT !.pc = "peek", !.peeked = next[current]]
  /\ UNCHANGED <<poolVars, failed, feedback, podVars, busChan, buffer>>

BusStep == Take \/ PreparePeek \/ checkStatus \/ Prepare \/ Advance \/ SendToCurrent

PodStep(p) ==
  \/ \E m \in Msgs : Send(p, m) \/ Handle(p, m) \/ Abandon(p, m)
  \/ On(p) \/ Disconnect(p)

BusNext == Connect \/ (\E p \in Pods : PodStep(p)) \/ BusStep

BusSpec == BusInit /\ [][BusNext]_busVars

-----------------------------------------------------------------------------
(* Properties *)

Connected == {p \in Pods : connected[p]}

\* The links stay a ring of exactly the connected pods, whatever is inserted and
\* deleted during a walk: each is the next of one of them, and whoever goes on from
\* the current one comes to all of them.  The hub's pod keeps the ring from becoming
\* empty, which peek and next would not survive.
RingIsConnected ==
  /\ current \in Connected
  /\ \A p \in Connected : next[p] \in Connected
  /\ \A p \in Connected : \E q \in Connected : next[q] = p
  /\ \A S \in SUBSET Connected :
       current \in S /\ (\A p \in S : next[p] \in S) => S = Connected

\* insert, deleteNext, next: the links stay a ring of the connected pods, and
\* counts of messages, handlers and feedback stay in their types.
RingInvariant == BusTypeOK /\ RingIsConnected

Cause(p) == pod[p].asked \/ BagSize(failed[p]) >= HighWaterMark

\* "if the pod has requested disconnection, grant its wish" (pool.go line 92): a
\* pod is dropped because it asked for it or has failed highWaterMark messages,
\* or because it was connected between the check of such a pod and deleteNext,
\* in which case it is the newest one.
RemovedForCause ==
  [][\A p \in Pods : connected[p] /\ ~connected'[p] =>
        Cause(p) \/ (Cause(bus.cand) /\ bus.cand # p /\ p = maxID)]_busVars

\* traverse: the walk for a message sends it to no pod twice, so that it ends on
\* a ring that grows and shrinks under it, and when it ends every connected pod
\* has been sent the message, unless another pod was cut out than the one that
\* was checked and peeked at.
WalkIsExact ==
  [][bus.pc # "idle" /\ ~bus.astray =>
       /\ \A p \in Pods : visits'[p] <= 1
       /\ bus'.pc = "idle" => \A p \in Pods : connected[p] => visits[p] = 1]_busVars

\* "Failed messages will be replayed when messages begin to succeed" (pod.go line
\* 122): a message that a handler failed is in the feedback, in the failed queue
\* or on its way again for as long as the pod is connected; none is lost.
FailedIsNotLost ==
  \A p \in Pods : connected[p] =>
    \A m \in owed[p] : feedback[p].failed[m] + failed[p][m] + pending[p][m] > 0
=============================================================================
