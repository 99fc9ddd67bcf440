----------------------------- MODULE Dispatcher -----------------------------
(***************************************************************************)
(* e2core/server/dispatcher.go with the sats that answer it                *)
(* (sat/sat/meshed.go) and the Sequence both of them advance.              *)
(*                                                                         *)
(* Execute runs in the goroutine of an HTTP request.  It registers a       *)
(* callback for its parent ID, tunnels the first step to a sat and awaits  *)
(* one result per step, each for at most ten seconds; the sats hand the    *)
(* remaining steps to each other.  Every result that reaches the pod gets  *)
(* a goroutine that runs onMsgHandler: it holds the read lock of the       *)
(* dispatcher while it pushes the result into the unbuffered channel of    *)
(* the request.  A result message stands for its handler goroutine.        *)
(***************************************************************************)
EXTENDS Naturals, FiniteSets, Sequences

CONSTANTS
  Requests,       \* requests being executed; a request is its parent ID
  Plans,          \* the sequences of steps they may have, each "single" or "group"
  MaxSteps        \* the length of the longest of them

ASSUME PlansAssumption ==
  \A p \in Plans : p \in Seq({"single", "group"}) /\ Len(p) <= MaxSteps
ASSUME MaxStepsAssumption == MaxSteps \in Nat

VARIABLES
  plan,        \* seq.steps
  pc,          \* where each request is in Execute
  completed,   \* how many steps of e2core's copy of the sequence are Completed
  output,      \* req.State: the steps whose output has been stored
  verdict,     \* what Execute returned
  callbacks,   \* d.callbacks: the parent IDs registered
  waiting,     \* requests whose Lock() is pending: they keep new readers out
  readers,     \* handlers that hold the read lock, blocked in callback(result)
  jobs,        \* executions tunnelled to a sat and not yet run
  chain,       \* sats that have sent a result and go on with the sequence
  results      \* result messages on their way to onMsgHandler

vars == <<plan, pc, completed, output, verdict, callbacks, waiting, readers,
          jobs, chain, results>>

reqVars == <<plan, completed, output, verdict>>
satVars == <<jobs, chain, results>>

PCs == {"new", "adding", "dispatch", "await", "removing", "done"}
Outcomes == {"ok", "nilResponse", "runErr", "execErr"}
Verdicts == {"none", "success", "empty", "tunnel", "timeout", "failed", "group"}

StepIds == 1 .. MaxSteps
Job == [req : Requests, step : StepIds]
Result == [req : Requests, step : StepIds, outcome : Outcomes]

TypeOK ==
  /\ plan \in [Requests -> Plans]
  /\ pc \in [Requests -> PCs]
  /\ completed \in [Requests -> 0 .. MaxSteps]
  /\ output \in [Requests -> SUBSET StepIds]
  /\ verdict \in [Requests -> Verdicts]
  /\ callbacks \subseteq Requests
  /\ waiting \subseteq Requests
  /\ readers \subseteq Result
  /\ jobs \subseteq Job
  /\ chain \subseteq Job
  /\ results \subseteq Result

Init ==
  /\ plan \in [Requests -> Plans]
  /\ pc = [r \in Requests |-> "new"]
  /\ completed = [r \in Requests |-> 0]
  /\ output = [r \in Requests |-> {}]
  /\ verdict = [r \in Requests |-> "none"]
  /\ callbacks = {} /\ waiting = {} /\ readers = {}
  /\ jobs = {} /\ chain = {} /\ results = {}

-----------------------------------------------------------------------------
(* The lock: a sync.RWMutex.  Its write sections only touch the map and are  *)
(* one step each; a pending Lock keeps out readers that come after it.       *)

\* d.lock.Lock() is called by addCallback and by the deferred removeCallback.
LockRequested(r) ==
  /\ pc[r] \in {"adding", "removing"} /\ r \notin waiting
  /\ waiting' = waiting \cup {r}
  /\ UNCHANGED <<pc, reqVars, callbacks, readers, satVars>>

LockGranted(r) == r \in waiting /\ readers = {}

CanRLock == waiting = {}

Execute(r) ==
  /\ pc[r] = "new"
  /\ pc' = [pc EXCEPT ![r] = "adding"]
  /\ UNCHANGED <<reqVars, callbacks, waiting, readers, satVars>>

addCallback(r) ==
  /\ pc[r] = "adding" /\ LockGranted(r)
  /\ callbacks' = callbacks \cup {r}
  /\ waiting' = waiting \ {r}
  /\ pc' = [pc EXCEPT ![r] = "dispatch"]
  /\ UNCHANGED <<reqVars, readers, satVars>>

removeCallback(r) ==
  /\ pc[r] = "removing" /\ LockGranted(r)
  /\ callbacks' = callbacks \ {r}
  /\ waiting' = waiting \ {r}
  /\ pc' = [pc EXCEPT ![r] = "done"]
  /\ UNCHANGED <<reqVars, readers, satVars>>

-----------------------------------------------------------------------------
(* Execute *)

\* Fault: a failed Tunnel returns before removeCallback is deferred.
ReturnsEarly(r, v) ==
  /\ pc' = [pc EXCEPT ![r] = IF v = "tunnel" THEN "done" ELSE "removing"]
  /\ verdict' = [verdict EXCEPT ![r] = v]

\* Execute returns v: its deferred removeCallback is what is left to run.
Returns(r, v) ==
  /\ pc' = [pc EXCEPT ![r] = "removing"]
  /\ verdict' = [verdict EXCEPT ![r] = v]

\* dispatchSingle, up to awaitResult.  The first step is tunnelled whatever
\* its kind is; Tunnel fails when no peer with the capability is left.
dispatchSingle(r) ==
  /\ pc[r] = "dispatch"
  /\ \/ plan[r] = <<>> /\ Returns(r, "empty") /\ UNCHANGED jobs
     \/ plan[r] # <<>> /\ Returns(r, "tunnel") /\ UNCHANGED jobs
     \/ /\ plan[r] # <<>>
        /\ jobs' = jobs \cup {[req |-> r, step |-> 1]}
        /\ pc' = [pc EXCEPT ![r] = "await"]
        /\ UNCHANGED verdict
  /\ UNCHANGED <<plan, completed, output, callbacks, waiting, readers, chain, results>>

\* HandleStepResults: the output is stored under the name of the module that
\* sent it, and the first step that is not yet complete becomes complete.
HandleStepResults(r, m) ==
  /\ output' = [output EXCEPT ![r] = @ \cup {m.step}]
  /\ completed' = [completed EXCEPT ![r] = @ + 1]

\* Fault: the sequence is complete one step early.
ContinueShort(r, n) ==
  CASE n + 1 >= Len(plan[r]) -> Returns(r, "success")
    [] n + 1 < Len(plan[r]) /\ plan[r][n + 1] = "group" -> Returns(r, "group")
    [] OTHER -> UNCHANGED <<pc, verdict>>

\* The loop of Execute after a result has been handled.
Continue(r, n) ==
  CASE n = Len(plan[r]) -> Returns(r, "success")
    [] n < Len(plan[r]) /\ plan[r][n + 1] = "group" -> Returns(r, "group")
    [] OTHER -> UNCHANGED <<pc, verdict>>

\* awaitResult: the rendezvous of the handler's callback with the request.
awaitResult(r, m) ==
  /\ pc[r] = "await" /\ m \in readers /\ m.req = r
  /\ readers' = readers \ {m}
  /\ IF m.outcome = "ok"
       THEN HandleStepResults(r, m) /\ Continue(r, completed[r] + 1)
       ELSE Returns(r, "failed") /\ UNCHANGED <<output, completed>>
  /\ UNCHANGED <<plan, callbacks, waiting, satVars>>

\* Fault: awaitResult has no timeout.
awaitTimeoutNever(r) == pc[r] = "await" /\ FALSE /\ UNCHANGED vars

\* case <-time.After(time.Second * 10), whatever is on its way by then
awaitTimeout(r) ==
  /\ pc[r] = "await"
  /\ Returns(r, "timeout")
  /\ UNCHANGED <<plan, completed, output, callbacks, waiting, readers, satVars>>

\* onMsgHandler: a result nobody waits for is dropped, any other is pushed into
\* the channel of its request with the read lock held.
onMsgHandler(m) ==
  /\ m \in results /\ CanRLock
  /\ results' = results \ {m}
  /\ readers' = IF m.req \in callbacks THEN readers \cup {m} ELSE readers
  /\ UNCHANGED <<pc, reqVars, callbacks, waiting, jobs, chain>>

-----------------------------------------------------------------------------
(* The sats: handleFnResult *)

\* Fault: the sat goes on with the sequence after a failed step.
sendFnResultAlways(j, outcome) ==
  /\ j \in jobs
  /\ jobs' = jobs \ {j}
  /\ results' = results \cup {[req |-> j.req, step |-> j.step, outcome |-> outcome]}
  /\ chain' = chain \cup {j}
  /\ UNCHANGED <<pc, reqVars, callbacks, waiting, readers>>

\* The module ran; sendFnResult sends its outcome to the parent, and the sat
\* stops there unless the outcome is "ok".
sendFnResult(j, outcome) ==
  /\ j \in jobs
  /\ jobs' = jobs \ {j}
  /\ results' = results \cup {[req |-> j.req, step |-> j.step, outcome |-> outcome]}
  /\ chain' = IF outcome = "ok" THEN chain \cup {j} ELSE chain
  /\ UNCHANGED <<pc, reqVars, callbacks, waiting, readers>>

\* A job or a result that is lost: the sat dies or its pod cannot send.
SatFails(j) ==
  /\ j \in jobs
  /\ jobs' = jobs \ {j}
  /\ UNCHANGED <<pc, reqVars, callbacks, waiting, readers, chain, results>>

\* sendNextStep: the next step is tunnelled, or nothing is left to do, or Tunnel
\* fails ("nothing much we can do here").
sendNextStep(j) ==
  /\ j \in chain
  /\ chain' = chain \ {j}
  /\ \/ UNCHANGED jobs
     \/ /\ j.step < Len(plan[j.req])
        /\ jobs' = jobs \cup {[j EXCEPT !.step = @ + 1]}
  /\ UNCHANGED <<pc, reqVars, callbacks, waiting, readers, results>>

-----------------------------------------------------------------------------

RequestStep(r) ==
  \/ LockRequested(r) \/ addCallback(r) \/ dispatchSingle(r)
  \/ (\E m \in readers : awaitResult(r, m)) \/ awaitTimeout(r) \/ removeCallback(r)

HandlerStep == \E m \in results : onMsgHandler(m)

SatStep ==
  \/ \E j \in jobs : (\E o \in Outcomes : sendFnResult(j, o)) \/ SatFails(j)
  \/ \E j \in chain : sendNextStep(j)

Done == \A r \in Requests : pc[r] = "done"

\* Everything has been answered: the dispatcher waits for requests.
Quiet == Done /\ jobs \cup chain \cup results \cup readers = {} /\ UNCHANGED vars

Next == (\E r \in Requests : Execute(r) \/ RequestStep(r)) \/ HandlerStep \/ SatStep \/ Quiet

Spec == Init /\ [][Next]_vars

\* Goroutines that can run do run, and a sat answers or is given up.
Fairness ==
  /\ \A r \in Requests : WF_vars(RequestStep(r))
  /\ WF_vars(HandlerStep)
  /\ WF_vars(SatStep)

FairSpec == Spec /\ Fairness

-----------------------------------------------------------------------------
(* Properties *)

\* A request that succeeds has the output of every one of its steps, even when
\* the results overtake each other on their way through the mesh.
SuccessHasEveryOutput ==
  \A r \in Requests : verdict[r] = "success" => output[r] = 1 .. Len(plan[r])

\* A failed step ends the sequence on both sides: by the time e2core reports the
\* failure of a step, no sat has work left for that request.
FailureEndsSequence ==
  \A r \in Requests : verdict[r] = "failed" => \A j \in jobs \cup chain : j.req # r

\* A handler that is blocked in a callback serves a request that is registered:
\* the callback it read from the map under the lock is not removed meanwhile.
CallbackIsRegistered == \A m \in readers : m.req \in callbacks

\* A handler pushes a result into the channel of a request that has stopped
\* receiving, with the read lock held: it came in as the timeout fired,
LateHandler == \E m \in readers : verdict[m.req] = "timeout"

\* or, with no timeout at all, the result of a later step was taken before it and
\* ended the request, by its failure or because a group comes next.
OvertakenHandler == \E m \in readers : verdict[m.req] \in {"failed", "group"}

\* awaitResult, addCallback, removeCallback: whatever the sats lose or delay,
\* Execute returns and its callback is gone, unless a result is being handled
\* at the moment the timeout fires, or as the result of a later step ends the
\* request: no lock is granted any more in either case.
ReturnsUnlessLate ==
  \A r \in Requests : pc[r] = "adding" ~> (pc[r] = "done" \/ LateHandler \/ OvertakenHandler)

\* "dispatched execution did not complete before the timeout" (ErrDispatchTimeout,
\* dispatcher.go line 22) is what a caller gets when the sats give no answer in
\* time: every Execute returns.
EveryExecuteReturns == \A r \in Requests : pc[r] = "adding" ~> pc[r] = "done"

\* The map does not leak: on every path out of Execute, the early returns
\* included, the callback is gone when the request is over.
NoCallbackLeak == \A r \in Requests : pc[r] = "done" => r \notin callbacks

\* addCallback, removeCallback and the handlers of the bus keep one registry: a
\* handler works on a callback that stays registered while it does, no callback
\* outlives its Execute, and the state has its type.
RegistryInvariant == TypeOK /\ CallbackIsRegistered /\ NoCallbackLeak
=============================================================================
