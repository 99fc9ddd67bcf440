-------------------------------- MODULE Pod ---------------------------------
(***************************************************************************)
(* One pod of the bus seen from its owners (foundation/bus/bus/pod.go,     *)
(* receipt.go, timeout.go) and the message buffer it is replayed from.     *)
(* Owners share the pod: each sends a message and waits for a reply with   *)
(* the receipt, and one may set a handler with On.  All of them replace    *)
(* the one onFunc, under a lock that every message handler holds for       *)
(* reading.  The ring that the bus walks is in MessageBus: here a message  *)
(* is on its way past this pod, which is checked before it is sent the     *)
(* message and, when the walk began there, once more at its end.           *)
(***************************************************************************)
EXTENDS MsgBuffer, Sequences

CONSTANTS
  Asks,           \* messages that owners of the pod send to wait for a reply
  ReplyTo,        \* [Msgs -> Asks \cup {None}]: what SetReplyTo has set
  Timed,          \* the asks that wait with a timeout greater than 0
  Listens,        \* TRUE: an owner may call On
  WantsReplay,    \* the pod is from ConnectWithReplay
  FeedbackSize,   \* defaultPodChanSize (128 in the code)
  None

ASSUME PodAssumption ==
  /\ Asks \subseteq Msgs /\ Timed \subseteq Asks
  /\ ReplyTo \in [Msgs -> Asks \cup {None}]
  /\ Listens \in BOOLEAN /\ WantsReplay \in BOOLEAN
  /\ FeedbackSize \in Nat \ {0}
  /\ {None, "On"} \cap Msgs = {} /\ None # "On"

VARIABLES
  onFunc,     \* None, "On", or the ask whose wait has set it
  filter,     \* messageFilter: the UUIDs that are not allowed
  writer,     \* onFuncLock: who has it for writing, or waits for its readers
  jammed,     \* [Asks -> Nat]: handlers that hold the lock at errChan <- ...
  reports,    \* handlers that hold the lock at feedbackChan <- ...
  feedback,   \* feedbackChan: how many there are, and whether one is a replay request
  once,       \* replayOnce has been done
  wait,       \* [Asks -> pc of Send and WaitUntil]
  reply,      \* the variable of waitOnReply
  owner,      \* pc of the call of On
  unsent,     \* messages of other pods that are not yet sent
  busChan,
  bus,        \* the bus goroutine: where it is with which message
  pending,    \* [Msgs -> Nat]: on their way to a handler that has the lock
  handled,    \* history: messages that onFunc was called with
  reset,      \* history: asks sent before a handler was set or cleared
  missed      \* history: what was on the bus, past the pod, as it was replayed to

lockVars == <<writer, jammed, reports>>
podVars  == <<onFunc, filter, feedback, once, wait, reply, owner, handled, reset>>
busVars  == <<unsent, busChan, bus, pending, missed>>
allVars  == <<vars, lockVars, podVars, busVars>>

WaitStates == {"idle", "sending", "sent", "locking", "waiting",
               "answered", "timeout", "clearing", "returned"}
Feedback == [n : 0 .. FeedbackSize, replay : BOOLEAN]
BusStates == [pc : {"idle", "walked", "push"}, msg : Msgs \cup {None}]

NoFeedback == [n |-> 0, replay |-> FALSE]
IdleBus == [pc |-> "idle", msg |-> None]

PodTypeOK ==
  /\ onFunc \in Asks \cup {None, "On"} /\ writer \in Asks \cup {None, "On"}
  /\ filter \subseteq Asks /\ reset \subseteq Asks
  /\ jammed \in [Asks -> Nat] /\ reports \in Nat
  /\ feedback \in Feedback
  /\ once \in BOOLEAN
  /\ wait \in [Asks -> WaitStates]
  /\ reply \in [Asks -> Msgs \cup {None}]
  /\ owner \in {"idle", "locking", "done"}
  /\ unsent \subseteq Msgs /\ busChan \in Seq(Msgs)
  /\ bus \in BusStates
  /\ pending \in [Msgs -> Nat]
  /\ handled \subseteq Msgs /\ missed \subseteq Msgs

PodInit ==
  /\ Init
  /\ onFunc = None /\ filter = {} /\ once = FALSE
  /\ writer = None /\ jammed = [a \in Asks |-> 0] /\ reports = 0
  /\ feedback = NoFeedback
  /\ wait = [a \in Asks |-> "idle"] /\ reply = [a \in Asks |-> None]
  /\ owner = "idle"
  /\ unsent = Msgs \ Asks /\ busChan = <<>> /\ bus = IdleBus
  /\ pending = [m \in Msgs |-> 0]
  /\ handled = {} /\ reset = {} /\ missed = {}

Readers == reports > 0 \/ \E a \in Asks : jammed[a] > 0
WasSent == {a \in Asks : wait[a] # "idle"}

-----------------------------------------------------------------------------
(* The owners *)

\* Fault: the message is not filtered, and comes back to its sender.
SendUnfiltered(a) ==
  /\ wait[a] = "idle"
  /\ wait' = [wait EXCEPT ![a] = "sending"]
  /\ UNCHANGED <<vars, lockVars, onFunc, filter, feedback, once, reply, owner, handled, reset, busVars>>

\* Send: "don't allow the same message to bounce back through this pod".  The
\* filter is looked up without onFuncLock.  The pod lives (Disconnect, after which
\* Send returns no receipt, is in MessageBus).
Send(a) ==
  /\ wait[a] = "idle"
  /\ wait' = [wait EXCEPT ![a] = "sending"]
  /\ filter' = filter \cup {a}
  /\ UNCHANGED <<vars, lockVars, onFunc, feedback, once, reply, owner, handled, reset, busVars>>

\* Send: p.busChan <- msg, and the receipt.
SendToBus(a) ==
  /\ wait[a] = "sending"
  /\ wait' = [wait EXCEPT ![a] = "sent"]
  /\ busChan' = Append(busChan, a)
  /\ UNCHANGED <<vars, lockVars, onFunc, filter, feedback, once, reply, owner, handled, reset,
                 unsent, bus, pending, missed>>

\* setOnFunc, with the lock: a new filter, and the request for a replay the first
\* time that a handler is set.  The feedback channel may be full.
setOnFunc(f) ==
  LET asks == f # None /\ ~once /\ WantsReplay IN
  /\ writer' = None
  /\ onFunc' = f
  /\ filter' = {}
  /\ reset' = reset \cup WasSent
  /\ once' = (once \/ f # None)
  /\ asks => feedback.n < FeedbackSize
  /\ feedback' = IF asks THEN [n |-> feedback.n + 1, replay |-> TRUE] ELSE feedback
  /\ UNCHANGED <<vars, jammed, reports, handled, busVars>>

\* onFuncLock.Lock(): once announced, it keeps new readers out.
Lock(who) == writer = None /\ writer' = who

\* On
OnLock ==
  /\ Listens /\ owner = "idle"
  /\ Lock("On")
  /\ owner' = "locking"
  /\ UNCHANGED <<vars, jammed, reports, onFunc, filter, feedback, once, wait, reply, handled, reset, busVars>>

On ==
  /\ owner = "locking" /\ ~Readers
  /\ setOnFunc("On")
  /\ owner' = "done"
  /\ UNCHANGED <<wait, reply>>

\* MsgReceipt.WaitOn, WaitUntil and OnReply end up in WaitUntil, which locks, sets
\* its handler and waits; then locks again to clear it.
WaitLock(a) ==
  /\ wait[a] \in {"sent", "answered", "timeout"}
  /\ Lock(a)
  /\ wait' = [wait EXCEPT ![a] = IF @ = "sent" THEN "locking" ELSE "clearing"]
  /\ UNCHANGED <<vars, jammed, reports, onFunc, filter, feedback, once, reply, owner, handled, reset, busVars>>

\* Fault: the lock is kept while waiting.
WaitUntilLocked(a) ==
  /\ wait[a] = "locking" /\ ~Readers
  /\ onFunc' = a /\ filter' = {} /\ reset' = reset \cup WasSent
  /\ once' = TRUE
  /\ wait' = [wait EXCEPT ![a] = "waiting"]
  /\ UNCHANGED <<vars, lockVars, feedback, reply, owner, handled, busVars>>

WaitUntil(a) ==
  /\ wait[a] = "locking" /\ ~Readers
  /\ setOnFunc(a)
  /\ wait' = [wait EXCEPT ![a] = "waiting"]
  /\ UNCHANGED <<reply, owner>>

\* select: a handler hands over its error, and goes on to report.
Answered(a) ==
  /\ wait[a] = "waiting" /\ jammed[a] > 0
  /\ wait' = [wait EXCEPT ![a] = "answered"]
  /\ jammed' = [jammed EXCEPT ![a] = @ - 1]
  /\ reports' = reports + 1
  /\ UNCHANGED <<vars, writer, onFunc, filter, feedback, once, reply, owner, handled, reset, busVars>>

\* select: case <-timeout().
TimedOut(a) ==
  /\ wait[a] = "waiting" /\ a \in Timed
  /\ wait' = [wait EXCEPT ![a] = "timeout"]
  /\ UNCHANGED <<vars, lockVars, onFunc, filter, feedback, once, reply, owner, handled, reset, busVars>>

\* Fault: the handler is left in place.
WaitEndsQuick(a) ==
  /\ wait[a] = "clearing" /\ ~Readers
  /\ writer' = None
  /\ wait' = [wait EXCEPT ![a] = "returned"]
  /\ UNCHANGED <<vars, jammed, reports, onFunc, filter, feedback, once, reply, owner, handled, reset, busVars>>

\* WaitUntil: p.setOnFunc(nil), and the return of waitOnReply.
WaitEnds(a) ==
  /\ wait[a] = "clearing" /\ ~Readers
  /\ setOnFunc(None)
  /\ wait' = [wait EXCEPT ![a] = "returned"]
  /\ UNCHANGED <<reply, owner>>

-----------------------------------------------------------------------------
(* The goroutine that the pod starts for a message *)

\* The lock for reading, and the decision.  waitOnReply keeps the message before
\* its handler offers it; one that is not wanted counts as handled.
Handle(m) ==
  /\ pending[m] > 0 /\ writer = None
  /\ pending' = [pending EXCEPT ![m] = @ - 1]
  /\ \/ /\ onFunc = None \/ m \in filter
        /\ UNCHANGED <<jammed, reports, reply, handled>>
     \/ /\ onFunc # None /\ m \notin filter
        /\ handled' = handled \cup {m}
        /\ IF onFunc # "On" /\ ReplyTo[m] = onFunc
             THEN /\ reply' = [reply EXCEPT ![onFunc] = m]
                  /\ jammed' = [jammed EXCEPT ![onFunc] = @ + 1]
                  /\ UNCHANGED reports
             ELSE reports' = reports + 1 /\ UNCHANGED <<reply, jammed>>
  /\ UNCHANGED <<vars, writer, onFunc, filter, feedback, once, wait, owner, reset, unsent, busChan, bus, missed>>

\* feedbackChan <- podFeedbackMsgSuccess, and the lock is released.
Report ==
  /\ reports > 0 /\ feedback.n < FeedbackSize
  /\ reports' = reports - 1
  /\ feedback' = [feedback EXCEPT !.n = @ + 1]
  /\ UNCHANGED <<vars, writer, jammed, onFunc, filter, once, wait, reply, owner, handled, reset, busVars>>

-----------------------------------------------------------------------------
(* The bus *)

\* ReplyTo: a pod that has seen the message answers it.  Other messages are sent
\* at any time.
Peer(m) ==
  /\ m \in unsent
  /\ ReplyTo[m] # None => \E i \in 0 .. size - 1 : order[i] = ReplyTo[m]
  /\ unsent' = unsent \ {m}
  /\ busChan' = Append(busChan, m)
  /\ UNCHANGED <<vars, lockVars, podVars, bus, pending, missed>>

Sent(log, p) == [m \in Msgs |-> p[m] + Cardinality({i \in DOMAIN log : log[i] = m})]
Replayed == IF feedback.replay THEN Sent(Iter, pending) ELSE pending

\* for msg := range b.busChan.  prepareNext drains the feedback of the pod and
\* replays the buffer to it on request; then the message is sent to it.
Visit ==
  /\ bus.pc = "idle" /\ busChan # <<>>
  /\ bus' = [pc |-> "walked", msg |-> Head(busChan)]
  /\ busChan' = Tail(busChan)
  /\ feedback' = NoFeedback
  /\ pending' = Sent(<<Head(busChan)>>, Replayed)
  /\ UNCHANGED <<vars, lockVars, onFunc, filter, once, wait, reply, owner, handled, reset, unsent, missed>>

\* Fault: the second check drains the request and does not serve it.
CheckAgainDrains ==
  /\ bus.pc = "walked"
  /\ bus' = [bus EXCEPT !.pc = "push"]
  /\ feedback' = NoFeedback
  /\ UNCHANGED <<vars, lockVars, onFunc, filter, once, wait, reply, owner, handled, reset,
                 unsent, busChan, pending, missed>>

\* The walk comes back to the pod it began with and checks it before it ends.
CheckAgain ==
  /\ bus.pc = "walked"
  /\ bus' = [bus EXCEPT !.pc = "push"]
  /\ feedback' = NoFeedback
  /\ pending' = Replayed
  /\ missed' = IF feedback.replay THEN missed \cup {bus.msg} ELSE missed
  /\ UNCHANGED <<vars, lockVars, onFunc, filter, once, wait, reply, owner, handled, reset, unsent, busChan>>

\* b.buffer.Push(msg)
PushMsg ==
  /\ bus.pc \in {"walked", "push"}
  /\ Push(bus.msg)
  /\ bus' = IdleBus
  /\ UNCHANGED <<lockVars, podVars, unsent, busChan, pending, missed>>

BusStep == Visit \/ CheckAgain \/ PushMsg

AskStep(a) ==
  SendToBus(a) \/ WaitLock(a) \/ WaitUntil(a) \/ Answered(a) \/ WaitEnds(a)

PodNext ==
  \/ \E a \in Asks : Send(a) \/ AskStep(a) \/ TimedOut(a)
  \/ OnLock \/ On
  \/ \E m \in Msgs : Handle(m) \/ Peer(m)
  \/ Report
  \/ BusStep

PodSpec == PodInit /\ [][PodNext]_allVars

\* Goroutines that can run do.  Peers need not send anything; a timer fires.
PodFairness ==
  /\ \A a \in Asks : WF_allVars(SendToBus(a)) /\ SF_allVars(WaitLock(a)) /\ WF_allVars(WaitUntil(a))
                     /\ WF_allVars(Answered(a)) /\ WF_allVars(WaitEnds(a)) /\ WF_allVars(TimedOut(a))
  /\ WF_allVars(On) /\ WF_allVars(Report) /\ WF_allVars(BusStep)
  /\ \A m \in Msgs : SF_allVars(Handle(m))

FairPodSpec == PodSpec /\ PodFairness

-----------------------------------------------------------------------------
(* Properties *)

\* setOnFunc, onFuncLock: the handler of a wait is in place only while that wait
\* has not returned, whoever shares the pod; one owner at a time has the lock to
\* set or clear a handler; the request for a replay always finds room in the
\* feedback channel, since no handler can have reported before it; and
\* waitOnReply goes on only with a reply to its own message.
PodInvariant ==
  /\ PodTypeOK
  /\ onFunc \in Asks => wait[onFunc] \in {"waiting", "answered", "timeout", "clearing"}
  /\ \A a \in Asks : wait[a] \in {"locking", "clearing"} => writer = a
  /\ owner = "locking" => writer = "On"
  /\ ~once => feedback.n = 0 /\ ~Readers
  /\ \A a \in Asks : wait[a] = "answered" => reply[a] # None /\ ReplyTo[reply[a]] = a

\* "don't allow the same message to bounce back through this pod" (pod.go line
\* 94): a message of the pod's own reaches a handler of the pod only if the
\* handler was set, or another one cleared, after it was sent.
NoBounce == handled \cap Asks \subseteq reset

Settled == bus.pc = "idle" /\ pending = [m \in Msgs |-> 0]

\* "replays recent messages when the pod sets its onFunc" (bus.go): when a pod has
\* called On alone and its request has been read, it has been called with every
\* message of the buffer but its own and at most one other, the one that was
\* past the pod, and not yet in the buffer, as the replay was taken from it.
ReplayCoversRecent ==
  (WantsReplay /\ Settled /\ onFunc = "On" /\ ~feedback.replay
     /\ \A a \in Asks : wait[a] \in {"idle", "sent"})
    => Held \ (handled \cup Asks) \subseteq missed /\ Cardinality(missed) <= 1

\* A handler that nobody will ever take the error of, and handlers that wait for
\* the bus to make room for their reports.
Jammed == \E a \in Asks : jammed[a] > 0 /\ wait[a] \notin {"waiting", "locking"}
Full == reports > 0 /\ feedback.n = FeedbackSize

\* "ErrWaitTimeout is returned if the time is exceeded" (pod.go line 170): a wait
\* with a timeout returns, and so does On, unless a wanted message was handled
\* that its wait no longer takes, or the feedback channel is full and no message
\* comes by for the bus to drain it.
WaitReturns ==
  /\ \A a \in Timed : (wait[a] = "sent") ~> (wait[a] = "returned" \/ []Jammed \/ []Full)
  /\ (owner = "locking") ~> (owner = "done" \/ []Jammed \/ []Full)
=============================================================================
